---- MODULE Spec2Model ----
(***************************************************************************)
(* Verification model of the polymarket-viewer client pipeline:            *)
(*   - TimeSeries   the bounded, time-ordered buffer (lib/buffer.ts)       *)
(*   - buildCandles the OHLC aggregation with gap filling (lib/candles.ts) *)
(*   - useCandles / BigPercent  the delayed view (hooks/useCandles.ts,     *)
(*                  components/BigPercent.tsx)                             *)
(*   - useMarketWS  the dual-outcome poll feed (lib/useMarketWS.ts)        *)
(*   - useMarketHistory  the backfill fetch (hooks/useMarketHistory.ts)    *)
(*   - HomeContent  the component joining them (features/home)             *)
(*   - midFrom      the mid-price of one top of book (lib/useMarketWS.ts)  *)
(*   - MarketControls / HomeContent  the delay input and the query-string  *)
(*                  effects (components/MarketControls.tsx, features/home) *)
(*   - useResolveMarket  the debounced resolver (hooks/useResolveMarket.ts)*)
(*   - ws.onmessage, ws.onclose, ws.onerror  the WebSocket version of the  *)
(*                  feed and its fallback poll (app/page.tsx)              *)
(*   - useWakeLock  the screen wake lock of TV mode (hooks/useWakeLock.ts) *)
(*                                                                         *)
(* Thirteen specifications share the module:                               *)
(*   SpecTS    one TimeSeries instance driven by push / atOrBefore         *)
(*   SpecBC    buildCandles applied to bounded inputs                      *)
(*   SpecView  useCandles and BigPercent applied to bounded inputs         *)
(*   Spec      the useMarketWS hook: market switches, poll ticks           *)
(*   SpecHist  the useMarketHistory hook: commits, settling fetches        *)
(*   SpecApp   HomeContent: both hooks, the clock and the renders          *)
(*   SpecMid   midFrom applied to bounded tops of book                     *)
(*   SpecCtl   the delay input, the URL input and the query string         *)
(*   SpecRes   useResolveMarket: edits, debounce, settling requests        *)
(*   SpecPipe  useResolveMarket feeding useMarketWS its token pair         *)
(*   SpecFeed  the same updates fed to the socket handler and to the poll  *)
(*   SpecSock  the socket effect: market switches, close and error events  *)
(*   SpecWake  useWakeLock: enabling, settling requests, document events   *)
(* Each specification pins the variables of the others.                    *)
(*                                                                         *)
(* Timestamps are integers (milliseconds). An optional value               *)
(* (T | undefined) is a sequence of length <= 1.                           *)
(***************************************************************************)
EXTENDS Integers, Sequences, FiniteSets, TLC

VARIABLES
  \* ---- TimeSeries instance (SpecTS) ----
  buf,         \* TimeSeries.buf
  maxPoints,   \* TimeSeries.maxPoints
  maxAgeMs,    \* TimeSeries.maxAgeMs: <<>> when not configured, else <<n>>
  pushed,      \* history: every point handed to push, in call order
  tsCall,      \* the last call on the instance: [op, arg, ret]
  \* ---- buildCandles (SpecBC) ----
  points,      \* argument points
  intervalMs,  \* argument intervalMs
  bcCall,      \* the last call: [op, opts, ret]
  \* ---- delayed view: useCandles and BigPercent (SpecView) ----
  series,      \* the active outcome's live TimeSeries (its buffer)
  backfill,    \* the active outcome's backfill
  nowTs,       \* HomeContent state nowTs
  delaySec,    \* HomeContent state delaySec
  tf,          \* HomeContent state tf (minutes)
  view,        \* the last render: [op, candles, readout]
  \* ---- the useMarketWS hook (Spec) ----
  yesTokenId,   \* prop yesTokenId as last committed: None (undefined) or Some(id)
  noTokenId,    \* prop noTokenId as last committed
  seriesYesRef, \* seriesYesRef.current (the buffer of that TimeSeries)
  seriesNoRef,  \* seriesNoRef.current
  tobRef,       \* tobRef.current: token id -> None (no entry) or Some(TOB)
  currentTOB,   \* the object useMemo captured at the first render: [tob, isRef],
                \* its contents and whether tobRef.current is still that object
  pollTimer,    \* pollTimer.current: None (null) or Some(tokens its callback closes over)
  intervals,    \* the intervals set and not cleared, oldest first, each the tokens
                \* its callback closes over
  inFlight,     \* poll callbacks suspended at their await, oldest first
  clock,        \* Date.now()
  ticks,        \* number of poll callbacks started so far
  hookLast,     \* history: the last step of the hook
  \* ---- the useMarketHistory hook (SpecHist) ----
  market,       \* prop market as last committed: None (null) or Some(MarketRef)
  backfillYes,  \* state backfillYes
  backfillNo,   \* state backfillNo
  loading,      \* state loading
  error,        \* state error: None (null) or Some(message)
  histEffect,   \* the number of the effect instance of the last commit
  cancelled,    \* effect instance -> the value of its local variable cancelled
  fetches,      \* async runs suspended at their await, oldest first: [e, yes, no]
  histLast,     \* history: the last step of the hook
  \* ---- HomeContent (SpecApp) ----
  pov,          \* state pov
  page,         \* the last render: what was handed to the chart and the readout
  \* ---- midFrom (SpecMid) ----
  tobArg,       \* argument t: None (undefined) or Some(TOB)
  midCall,      \* the last call: [op, ret]
  \* ---- HomeContent and the query string (SpecCtl) ----
  currentQS,    \* searchParams: [url, delay], each None (absent) or Some(string)
  marketUrl,    \* state marketUrl
  urlTimer,     \* the pending 300 ms timeout of the push effect: None or Some(closure)
  ctlLast,      \* history: the last step
  \* ---- useResolveMarket (SpecRes) ----
  resolving,       \* state resolving
  resolveError,    \* state error of useResolveMarket: None (null) or Some(message)
  lastResolvedRef, \* lastResolvedRef.current of useResolveMarket
  debounce,        \* the pending debounce timeout: None or Some(target)
  requests,        \* resolveNow calls suspended at their await, oldest first
  resLast,         \* history: the last step
  \* ---- the push-stream feed next to the poll feed (SpecFeed) ----
  wsHook,       \* the refs of the hook fed by WebSocket messages: [tob, yes, no]
  wsLast,       \* history: the last delivery
  sockets,      \* the WebSockets the hook created, oldest first: [c, state, failed]
  \* ---- useWakeLock (SpecWake) ----
  enabled,             \* prop enabled as last committed
  wakeMounted,         \* the component is mounted
  wakeEffect,          \* the number of the effect instance of the last commit
  wakeCancelled,       \* effect instance -> the value of its local variable cancelled
  wakeLockRef,         \* wakeLockRef.current: None (null) or Some(sentinel)
  interactionRetryRef, \* interactionRetryRef.current: None (null) or Some(retry),
                       \* a retry named by the effect instance that created it
  wakeRequests,        \* requestWakeLock calls suspended at their await, oldest
                       \* first, each the effect instance it belongs to
  sentinels,           \* the sentinels granted so far, by number: "held" or "released"
  listeners,           \* document listeners: [visibilitychange, retry], each the set
                       \* of effect instances whose handler is registered
  visibilityState,     \* document.visibilityState
  navWakeLock,         \* navigator.wakeLock is defined
  wakeLast             \* history: the last step

tsVars == <<buf, maxPoints, maxAgeMs, pushed, tsCall>>
bcVars == <<points, intervalMs, bcCall>>
viewVars == <<series, backfill, nowTs, delaySec, tf, view>>
hookVars == <<yesTokenId, noTokenId, seriesYesRef, seriesNoRef, tobRef, currentTOB, pollTimer,
              intervals, inFlight, clock, ticks, hookLast>>

histVars == <<market, backfillYes, backfillNo, loading, error, histEffect, cancelled,
              fetches, histLast>>
appVars == <<pov, page>>
midVars == <<tobArg, midCall>>
ctlVars == <<currentQS, marketUrl, urlTimer, ctlLast>>
resVars == <<resolving, resolveError, lastResolvedRef, debounce, requests, resLast>>
wsVars == <<wsHook, wsLast, sockets>>
wakeVars == <<enabled, wakeMounted, wakeEffect, wakeCancelled, wakeLockRef,
              interactionRetryRef, wakeRequests, sentinels, listeners,
              visibilityState, navWakeLock, wakeLast>>
extVars == <<midVars, ctlVars, resVars, wsVars, wakeVars>>

vars == <<buf, maxPoints, maxAgeMs, pushed, tsCall, points, intervalMs, bcCall,
          series, backfill, nowTs, delaySec, tf, view,
          yesTokenId, noTokenId, seriesYesRef, seriesNoRef, tobRef, currentTOB, pollTimer,
          intervals, inFlight, clock, ticks, hookLast,
          market, backfillYes, backfillNo, loading, error, histEffect, cancelled,
          fetches, histLast, pov, page,
          tobArg, midCall, currentQS, marketUrl, urlTimer, ctlLast,
          resolving, resolveError, lastResolvedRef, debounce, requests, resLast,
          wsHook, wsLast, sockets,
          enabled, wakeMounted, wakeEffect, wakeCancelled, wakeLockRef,
          interactionRetryRef, wakeRequests, sentinels, listeners,
          visibilityState, navWakeLock, wakeLast>>

\* What each specification leaves alone.
notTS == <<bcVars, viewVars, hookVars, histVars, appVars, extVars>>
notBC == <<tsVars, extVars, viewVars, hookVars, histVars, appVars>>
notView == <<tsVars, extVars, bcVars, hookVars, histVars, appVars>>
notHook == <<tsVars, extVars, bcVars, viewVars, histVars, appVars>>

(***************************************************************************)
(* Bounds of the model.                                                    *)
(***************************************************************************)
MaxT == 3             \* timestamps are drawn from 0..MaxT
MaxPushes == 4        \* pushes per TimeSeries instance in SpecTS
MaxPointsCap == 2     \* maxPoints is drawn from 1..MaxPointsCap in SpecTS
MaxAgeCap == 1        \* maxAgeMs is drawn from 0..MaxAgeCap (or unset) in SpecTS
MaxPts == 3           \* length of the points argument of buildCandles in SpecBC
MaxLive == 2          \* length of the live series in SpecView
MaxBackfill == 1      \* length of the backfill in SpecView
MaxClock == 1         \* Date.now() runs over 0..MaxClock in Spec
MaxTicks == 2         \* poll callbacks started in Spec
MaxInFlight == 2      \* poll callbacks awaiting their responses at once in Spec
MaxCommits == 2       \* commits with changed market or timeframe in SpecHist
MaxHist == 1          \* points per history response
AppMaxTicks == 1      \* poll callbacks started in SpecApp
MaxWakeEffects == 3   \* commits with the prop enabled changed in SpecWake
MaxWakeRequests == 3  \* wake-lock requests started in SpecWake

Times == 0..MaxT

\* Sample values p (probabilities, in abstract units).
Probs == {0, 1, 2}

\* PricePoint {t, p}.
PricePoints == [t : Times, p : Probs]

\* Sequences over S of length at most n.
SeqsUpTo(S, n) == UNION {[1..k -> S] : k \in 0..n}

(***************************************************************************)
(* Generic helpers.                                                        *)
(***************************************************************************)
None == <<>>
Some(x) == <<x>>

Range(s) == {s[i] : i \in 1..Len(s)}

Min2(a, b) == IF a <= b THEN a ELSE b
Max2(a, b) == IF a >= b THEN a ELSE b

\* Array.prototype.slice(from): the elements at 0-based index >= from.
Slice(arr, from) == SubSeq(arr, from + 1, Len(arr))

\* Non-decreasing by t.
IsSortedByT(arr) == \A i \in 1..(Len(arr) - 1) : arr[i].t <= arr[i + 1].t

\* The last n elements of arr (all of it when it is shorter).
LastN(arr, n) == SubSeq(arr, Max2(1, Len(arr) - n + 1), Len(arr))

(***************************************************************************)
(* TimeSeries (lib/buffer.ts).  Indices are 0-based as in the source;      *)
(* arr[i] of the source is arr[i + 1] here.                                *)
(***************************************************************************)

\* The lower_bound loop of push and range: first index with t >= x.
RECURSIVE LowerBoundLoop(_, _, _, _, _)
LowerBoundLoop(arr, x, lo, hi, idx) ==
  IF lo <= hi
  THEN LET mid == (lo + hi) \div 2
       IN IF arr[mid + 1].t >= x
          THEN LowerBoundLoop(arr, x, lo, mid - 1, mid)
          ELSE LowerBoundLoop(arr, x, mid + 1, hi, idx)
  ELSE idx

\* Mutation: the age search compares with > (drops a point exactly at the cutoff).
RECURSIVE LowerBoundLoopStrict(_, _, _, _, _)
LowerBoundLoopStrict(arr, x, lo, hi, idx) ==
  IF lo <= hi
  THEN LET mid == (lo + hi) \div 2
       IN IF arr[mid + 1].t > x
          THEN LowerBoundLoopStrict(arr, x, lo, mid - 1, mid)
          ELSE LowerBoundLoopStrict(arr, x, mid + 1, hi, idx)
  ELSE idx

AgeTrimStrict(arr, p, age) ==
  IF age # None
  THEN LET cutoff == p.t - age[1]
           idx == LowerBoundLoopStrict(arr, cutoff, 0, Len(arr) - 1, Len(arr))
       IN IF idx > 0 THEN Slice(arr, idx) ELSE arr
  ELSE arr

\* push, step 2: trim by age when maxAgeMs is configured.
AgeTrim(arr, p, age) ==
  IF age # None
  THEN LET cutoff == p.t - age[1]
           idx == LowerBoundLoop(arr, cutoff, 0, Len(arr) - 1, Len(arr))
       IN IF idx > 0 THEN Slice(arr, idx) ELSE arr
  ELSE arr

\* Mutation: the count trim keeps the oldest points instead of the newest.
CountTrimOldest(arr, maxN) ==
  IF Len(arr) > maxN THEN SubSeq(arr, 1, maxN) ELSE arr

\* push, step 3: trim by max points.
CountTrim(arr, maxN) ==
  IF Len(arr) > maxN THEN Slice(arr, Len(arr) - maxN) ELSE arr

\* Mutation: push replaces the newest point when the timestamps are equal.
TimeSeriesPushDedup(arr, p, maxN, age) ==
  IF Len(arr) > 0 /\ arr[Len(arr)].t = p.t
  THEN CountTrim(AgeTrim(Append(SubSeq(arr, 1, Len(arr) - 1), p), p, age), maxN)
  ELSE CountTrim(AgeTrim(Append(arr, p), p, age), maxN)

\* Mutation: the point is inserted at the front (unshift) instead of appended.
TimeSeriesPushFront(arr, p, maxN, age) ==
  CountTrim(AgeTrim(<<p>> \o arr, p, age), maxN)

\* TimeSeries.push: append, trim by age, trim by count.
TimeSeriesPush(arr, p, maxN, age) ==
  CountTrim(AgeTrim(Append(arr, p), p, age), maxN)

\* The search loop of atOrBefore and indexAtOrBefore: last index with t <= ts.
RECURSIVE AtOrBeforeLoop(_, _, _, _, _)
AtOrBeforeLoop(arr, ts, lo, hi, ans) ==
  IF lo <= hi
  THEN LET mid == (lo + hi) \div 2
       IN IF arr[mid + 1].t <= ts
          THEN AtOrBeforeLoop(arr, ts, mid + 1, hi, mid)
          ELSE AtOrBeforeLoop(arr, ts, lo, mid - 1, ans)
  ELSE ans

\* TimeSeries.indexAtOrBefore.
IndexAtOrBefore(arr, ts) ==
  IF Len(arr) = 0 THEN -1 ELSE AtOrBeforeLoop(arr, ts, 0, Len(arr) - 1, -1)

\* Mutation: the search keeps the first hit and goes left (returns an
\* earlier point than the last one at or before ts).
RECURSIVE AtOrBeforeLoopLeft(_, _, _, _, _)
AtOrBeforeLoopLeft(arr, ts, lo, hi, ans) ==
  IF lo <= hi
  THEN LET mid == (lo + hi) \div 2
       IN IF arr[mid + 1].t <= ts
          THEN AtOrBeforeLoopLeft(arr, ts, lo, mid - 1, mid)
          ELSE AtOrBeforeLoopLeft(arr, ts, lo, mid - 1, ans)
  ELSE ans

AtOrBeforeLeft(arr, ts) ==
  IF Len(arr) = 0
  THEN None
  ELSE LET ans == AtOrBeforeLoopLeft(arr, ts, 0, Len(arr) - 1, -1)
       IN IF ans >= 0 THEN Some(arr[ans + 1]) ELSE None

\* TimeSeries.atOrBefore: the point, or None for undefined.
AtOrBefore(arr, ts) ==
  IF Len(arr) = 0
  THEN None
  ELSE LET ans == AtOrBeforeLoop(arr, ts, 0, Len(arr) - 1, -1)
       IN IF ans >= 0 THEN Some(arr[ans + 1]) ELSE None

\* TimeSeries.toArray: the buffer itself.
ToArray(arr) == arr

\* The value returned by range: the elements, and whether the array is the
\* object this.buf itself.  slice and the literal [] both allocate.
Returned(arr, same) == [out |-> arr, sameArray |-> same]

\* Mutation: range compares with > (drops the points exactly at fromTs).
TimeSeriesRangeStrict(arr, fromTs) ==
  IF Len(arr) = 0
  THEN Returned(<<>>, FALSE)
  ELSE LET idx == LowerBoundLoopStrict(arr, fromTs, 0, Len(arr) - 1, Len(arr))
       IN IF idx < Len(arr)
          THEN Returned(Slice(arr, idx), FALSE)
          ELSE Returned(<<>>, FALSE)

\* TimeSeries.range: all points from the lower bound of fromTs on.
TimeSeriesRange(arr, fromTs) ==
  IF Len(arr) = 0
  THEN Returned(<<>>, FALSE)
  ELSE LET idx == LowerBoundLoop(arr, fromTs, 0, Len(arr) - 1, Len(arr))
       IN IF idx < Len(arr)
          THEN Returned(Slice(arr, idx), FALSE)
          ELSE Returned(<<>>, FALSE)

(***************************************************************************)
(* SpecTS: one TimeSeries instance.                                        *)
(***************************************************************************)
NoCall == [op |-> "none", arg |-> 0, ret |-> None]

\* The variables of a specification that is not running.
TSIdle ==
  /\ buf = <<>>
  /\ maxPoints = 0
  /\ maxAgeMs = None
  /\ pushed = <<>>
  /\ tsCall = NoCall

BCIdle ==
  /\ points = <<>>
  /\ intervalMs = 0
  /\ bcCall = [op |-> "none", opts |-> None, ret |-> <<>>]

NoReadout == [pt |-> None, secs |-> None]

Tokens == {"A", "B", "C", "D"}

\* useMemo(() => tobRef.current, []) at the first render: the object that
\* tobRef.current is at that moment, kept for every later render.
useMemoTOB(tob) == [tob |-> tob, isRef |-> TRUE]

\* tobRef.current = {} of the reset effect: the ref holds a new object, the
\* memoised one keeps what it had.
MemoAfterReset(memo) == [memo EXCEPT !.isRef = FALSE]

\* A write through tobRef.current that leaves tob in the ref's object: the
\* memoised object shows it when it is that object.
MemoAfterWrite(memo, tob) == IF memo.isRef THEN [memo EXCEPT !.tob = tob] ELSE memo

\* useMarketWS after its first commit without tokens: the first render
\* memoised the TOB object, the reset effect replaced it, the poll effect
\* returned early.
HookIdle ==
  /\ yesTokenId = None
  /\ noTokenId = None
  /\ seriesYesRef = <<>>
  /\ seriesNoRef = <<>>
  /\ tobRef = [k \in Tokens |-> None]
  /\ currentTOB = MemoAfterReset(useMemoTOB([k \in Tokens |-> None]))
  /\ pollTimer = None
  /\ intervals = <<>>
  /\ inFlight = <<>>
  /\ clock = 0
  /\ ticks = 0
  /\ hookLast = [op |-> "mount", dropped |-> 0]

\* useMarketHistory after its first commit with market null: the effect
\* returned early.
HistIdle ==
  /\ market = None
  /\ backfillYes = <<>>
  /\ backfillNo = <<>>
  /\ loading = FALSE
  /\ error = None
  /\ histEffect = 0
  /\ cancelled = [e \in 0..MaxCommits |-> FALSE]
  /\ fetches = <<>>
  /\ histLast = [op |-> "mount"]

NoPage == [op |-> "none"]

AppIdle ==
  /\ pov = "YES"
  /\ page = NoPage

MidIdle ==
  /\ tobArg = None
  /\ midCall = [op |-> "none"]

\* HomeContent before it is mounted: an empty query string, no timeout.
CtlIdle ==
  /\ currentQS = [url |-> None, delay |-> None]
  /\ marketUrl = ""
  /\ urlTimer = None
  /\ ctlLast = [op |-> "none"]

ResIdle ==
  /\ resolving = FALSE
  /\ resolveError = None
  /\ lastResolvedRef = ""
  /\ debounce = None
  /\ requests = <<>>
  /\ resLast = [op |-> "none"]

WsIdle ==
  /\ wsHook = [tob |-> [k \in Tokens |-> None], yes |-> <<>>, no |-> <<>>]
  /\ wsLast = [op |-> "none"]
  /\ sockets = <<>>

\* useWakeLock after its first commit with enabled false (tvMode starts
\* false): the effect registered nothing and requested nothing.
WakeIdle ==
  /\ enabled = FALSE
  /\ wakeMounted = TRUE
  /\ wakeEffect = 0
  /\ wakeCancelled = [e \in 0..MaxWakeEffects |-> FALSE]
  /\ wakeLockRef = None
  /\ interactionRetryRef = None
  /\ wakeRequests = <<>>
  /\ sentinels = <<>>
  /\ listeners = [visibilitychange |-> {}, retry |-> {}]
  /\ visibilityState = "visible"
  /\ navWakeLock = TRUE
  /\ wakeLast = [op |-> "mount", requested |-> 0]

ExtIdle == MidIdle /\ CtlIdle /\ ResIdle /\ WsIdle /\ WakeIdle

ViewIdle ==
  /\ series = <<>>
  /\ backfill = <<>>
  /\ nowTs = 0
  /\ delaySec = 0
  /\ tf = 1
  /\ view = [op |-> "none", candles |-> <<>>, readout |-> NoReadout]

\* constructor(opts): buf empty, the two bounds taken from opts.
TSInit ==
  /\ buf = <<>>
  /\ maxPoints \in 1..MaxPointsCap
  /\ maxAgeMs \in {None} \cup {Some(a) : a \in 0..MaxAgeCap}
  /\ pushed = <<>>
  /\ tsCall = NoCall
  /\ BCIdle
  /\ ViewIdle
  /\ HookIdle
  /\ HistIdle
  /\ AppIdle
  /\ ExtIdle

\* series.push({t, p}).  The sample value p is opaque to the buffer; it is
\* the ordinal of the push, so that points of equal t stay distinguishable.
TSPush ==
  /\ Len(pushed) < MaxPushes
  /\ \E t \in Times :
       LET pt == [t |-> t, p |-> Len(pushed) + 1]
       IN /\ buf' = TimeSeriesPush(buf, pt, maxPoints, maxAgeMs)
          /\ pushed' = Append(pushed, pt)
          /\ tsCall' = [op |-> "push", arg |-> t, ret |-> None]
  /\ UNCHANGED <<maxPoints, maxAgeMs, notTS>>

\* series.atOrBefore(ts).
TSAtOrBefore ==
  /\ \E ts \in Times :
       tsCall' = [op |-> "atOrBefore", arg |-> ts, ret |-> AtOrBefore(buf, ts)]
  /\ UNCHANGED <<buf, maxPoints, maxAgeMs, pushed, notTS>>

\* series.range(fromTs).
TSRange ==
  /\ \E fromTs \in Times :
       tsCall' = [op |-> "range", arg |-> fromTs, ret |-> TimeSeriesRange(buf, fromTs)]
  /\ UNCHANGED <<buf, maxPoints, maxAgeMs, pushed, notTS>>

TSNext == TSPush \/ TSAtOrBefore \/ TSRange

SpecTS == TSInit /\ [][TSNext]_vars

(***************************************************************************)
(* Claims on TimeSeries, checked under SpecTS.                             *)
(***************************************************************************)

\* C4 (monotonic buffer): whenever the pushes so far had non-decreasing
\* timestamps, toArray() is sorted ascending by t, after every push and
\* after whatever the age trim and the count trim removed.
C4_MonotonicBuffer ==
  IsSortedByT(pushed) => IsSortedByT(ToArray(buf))

\* A monotone run of pushes with distinct timestamps after which trimming
\* has removed points and at least two remain.
C4_Witness ==
  /\ tsCall.op = "push"
  /\ IsSortedByT(pushed)
  /\ Len(pushed) >= 3
  /\ Len(buf) >= 2
  /\ Len(buf) < Len(pushed)
  /\ buf[1].t < buf[2].t

\* No point has been removed for its age: maxAgeMs is not configured, or the
\* pushes were monotone and all lie within maxAgeMs of the newest.
NoAgeTrimming ==
  \/ maxAgeMs = None
  \/ /\ IsSortedByT(pushed)
     /\ \A i \in 1..Len(pushed) : pushed[i].t >= pushed[Len(pushed)].t - maxAgeMs[1]

\* C5 (count bound): the buffer never holds more than maxPoints points, and
\* once more than maxPoints points were pushed with no age trimming in
\* effect it holds exactly the maxPoints most recently pushed, in push order.
C5_CountBound ==
  /\ Len(buf) <= maxPoints
  /\ (NoAgeTrimming /\ Len(pushed) > maxPoints) => buf = LastN(pushed, maxPoints)

\* At least two more points than maxPoints were pushed, no age bound.
C5_Witness ==
  /\ tsCall.op = "push"
  /\ maxAgeMs = None
  /\ Len(pushed) >= maxPoints + 2
  /\ Len(buf) = maxPoints

\* The points of the push history at or after the age cutoff of the newest.
WithinAge(hist, age) ==
  LET cutoff == hist[Len(hist)].t - age
      InWindow(pt) == pt.t >= cutoff
  IN SelectSeq(hist, InWindow)

\* C6 (age bound): with maxAgeMs configured and monotone pushes, every
\* retained point has t >= justPushed.t - maxAgeMs, and the buffer is exactly
\* the points of the age window (a point at the cutoff included), less only
\* what the count trim removed from the front.
C6_AgeBound ==
  (maxAgeMs # None /\ pushed # <<>> /\ IsSortedByT(pushed)) =>
    LET cutoff == pushed[Len(pushed)].t - maxAgeMs[1]
    IN /\ \A i \in 1..Len(buf) : buf[i].t >= cutoff
       /\ buf = LastN(WithinAge(pushed, maxAgeMs[1]), maxPoints)

\* The age trim has dropped an older point and kept one exactly at the cutoff.
C6_Witness ==
  /\ tsCall.op = "push"
  /\ maxAgeMs # None
  /\ IsSortedByT(pushed)
  /\ Len(buf) >= 2
  /\ buf[1].t = pushed[Len(pushed)].t - maxAgeMs[1]
  /\ \E i \in 1..Len(pushed) : pushed[i].t < buf[1].t

\* C7 (atOrBefore): on a buffer sorted by t, atOrBefore(ts) returns a buffered
\* point whose t is the greatest timestamp <= ts, and returns undefined
\* exactly when the buffer is empty or every point has t > ts.
C7_AtOrBefore ==
  (tsCall.op = "atOrBefore" /\ IsSortedByT(buf)) =>
    LET ts == tsCall.arg
        cands == {i \in 1..Len(buf) : buf[i].t <= ts}
    IN IF cands = {}
       THEN tsCall.ret = None
       ELSE /\ tsCall.ret # None
            /\ tsCall.ret[1] \in Range(buf)
            /\ tsCall.ret[1].t <= ts
            /\ \A i \in cands : buf[i].t <= tsCall.ret[1].t

\* A query that falls strictly between two buffered points, answered with
\* a point that is not the first of the buffer.
C7_Witness ==
  /\ tsCall.op = "atOrBefore"
  /\ IsSortedByT(buf)
  /\ Len(buf) >= 2
  /\ tsCall.ret # None
  /\ tsCall.ret[1].t > buf[1].t
  /\ tsCall.ret[1].t < tsCall.arg

\* The same query answered undefined on a non-empty buffer.
C7_WitnessNone ==
  /\ tsCall.op = "atOrBefore"
  /\ buf # <<>>
  /\ tsCall.ret = None

\* C23 (range): on a buffer sorted ascending by t, range(fromTs) returns
\* exactly the points with t >= fromTs in buffer order, in an array that is
\* not the internal buffer, and the empty sequence when there is no such
\* point.
C23_Range ==
  (tsCall.op = "range" /\ IsSortedByT(buf)) =>
    LET fromTs == tsCall.arg
        IsFrom(pt) == pt.t >= fromTs
    IN /\ tsCall.ret.out = SelectSeq(buf, IsFrom)
       /\ ~tsCall.ret.sameArray
       /\ (\A i \in 1..Len(buf) : buf[i].t < fromTs) => tsCall.ret.out = <<>>

\* A range that cuts a sorted buffer in two, with a point exactly at fromTs.
C23_Witness ==
  /\ tsCall.op = "range"
  /\ IsSortedByT(buf)
  /\ Len(tsCall.ret.out) >= 1
  /\ Len(tsCall.ret.out) < Len(buf)
  /\ tsCall.ret.out[1].t = tsCall.arg

\* A range past the newest point of a non-empty buffer.
C23_WitnessNone ==
  /\ tsCall.op = "range"
  /\ IsSortedByT(buf)
  /\ buf # <<>>
  /\ tsCall.ret.out = <<>>

\* The index of the point atOrBefore has to return: the last one with t <= ts.
LastIndexAtOrBefore(arr, ts) ==
  LET cands == {i \in 1..Len(arr) : arr[i].t <= ts}
  IN CHOOSE i \in cands : \A j \in cands : j <= i

\* C29 (duplicate timestamps): push never deduplicates, so the buffer is
\* always the tail of the push history, and two pushes with the same t are
\* both retained in push order when the bounds leave room for two points;
\* among the buffered points that share the greatest timestamp <= ts,
\* atOrBefore(ts) returns the one pushed last.
C29_Duplicates ==
  /\ Len(buf) <= Len(pushed)
  /\ buf = LastN(pushed, Len(buf))
  /\ (/\ tsCall.op = "push"
      /\ IsSortedByT(pushed)
      /\ Len(pushed) >= 2
      /\ pushed[Len(pushed)].t = pushed[Len(pushed) - 1].t
      /\ maxPoints >= 2)
     => /\ Len(buf) >= 2
        /\ buf[Len(buf) - 1] = pushed[Len(pushed) - 1]
        /\ buf[Len(buf)] = pushed[Len(pushed)]
  /\ (/\ tsCall.op = "atOrBefore"
      /\ IsSortedByT(buf)
      /\ tsCall.ret # None)
     => tsCall.ret[1] = buf[LastIndexAtOrBefore(buf, tsCall.arg)]

\* Two pushes with the same timestamp are both in the buffer, and a query at
\* that timestamp is answered with the later of the two.
C29_Witness ==
  /\ tsCall.op = "atOrBefore"
  /\ IsSortedByT(buf)
  /\ Len(buf) >= 2
  /\ buf[Len(buf)].t = buf[Len(buf) - 1].t
  /\ tsCall.arg = buf[Len(buf)].t
  /\ tsCall.ret = Some(buf[Len(buf)])

(***************************************************************************)
(* buildCandles (lib/candles.ts).  A Candle is [t, open, high, low, close].*)
(***************************************************************************)

\* Mutation: the bucket key is the point's own timestamp.
BucketStartRaw(t, ms) == t

\* Math.floor(t / intervalMs) * intervalMs, for intervalMs > 0.
BucketStart(t, ms) == (t \div ms) * ms

\* Array.prototype.sort((a, b) => a.t - b.t): ascending by t, stable.
RECURSIVE InsertByT(_, _)
InsertByT(sorted, x) ==
  IF sorted = <<>> \/ sorted[Len(sorted)].t <= x.t
  THEN Append(sorted, x)
  ELSE Append(InsertByT(SubSeq(sorted, 1, Len(sorted) - 1), x), sorted[Len(sorted)])

RECURSIVE SortByT(_)
SortByT(arr) ==
  IF arr = <<>> THEN <<>>
  ELSE InsertByT(SortByT(SubSeq(arr, 1, Len(arr) - 1)), arr[Len(arr)])

\* Mutation: a later point of a bucket overwrites open as well as close.
AddPointOpenOverwritten(bucketMap, pt, ms) ==
  LET bucketStart == BucketStart(pt.t, ms)
      hit == {i \in 1..Len(bucketMap) : bucketMap[i].t = bucketStart}
  IN IF hit = {}
     THEN Append(bucketMap, [t |-> bucketStart, open |-> pt.p, high |-> pt.p,
                             low |-> pt.p, close |-> pt.p])
     ELSE LET i == CHOOSE j \in hit : TRUE
              candle == bucketMap[i]
          IN [bucketMap EXCEPT ![i] =
                [t |-> candle.t, open |-> pt.p, high |-> Max2(candle.high, pt.p),
                 low |-> Min2(candle.low, pt.p), close |-> pt.p]]

\* Mutation: a later point of a bucket never raises high.
AddPointHighKept(bucketMap, pt, ms) ==
  LET bucketStart == BucketStart(pt.t, ms)
      hit == {i \in 1..Len(bucketMap) : bucketMap[i].t = bucketStart}
  IN IF hit = {}
     THEN Append(bucketMap, [t |-> bucketStart, open |-> pt.p, high |-> pt.p,
                             low |-> pt.p, close |-> pt.p])
     ELSE LET i == CHOOSE j \in hit : TRUE
              candle == bucketMap[i]
          IN [bucketMap EXCEPT ![i] =
                [t |-> candle.t, open |-> candle.open, high |-> candle.high,
                 low |-> Min2(candle.low, pt.p), close |-> pt.p]]

\* One iteration of the aggregation loop.  bucketMap is the Map's values in
\* insertion order; a bucketStart occurs in it at most once.
AddPoint(bucketMap, pt, ms) ==
  LET bucketStart == BucketStart(pt.t, ms)
      hit == {i \in 1..Len(bucketMap) : bucketMap[i].t = bucketStart}
  IN IF hit = {}
     THEN Append(bucketMap, [t |-> bucketStart, open |-> pt.p, high |-> pt.p,
                             low |-> pt.p, close |-> pt.p])
     ELSE LET i == CHOOSE j \in hit : TRUE
              candle == bucketMap[i]
          IN [bucketMap EXCEPT ![i] =
                [t |-> candle.t, open |-> candle.open, high |-> Max2(candle.high, pt.p),
                 low |-> Min2(candle.low, pt.p), close |-> pt.p]]

\* The aggregation loop over the sorted points, from the k-th on.
RECURSIVE Aggregate(_, _, _, _)
Aggregate(sorted, k, bucketMap, ms) ==
  IF k > Len(sorted) THEN bucketMap
  ELSE Aggregate(sorted, k + 1, AddPoint(bucketMap, sorted[k], ms), ms)

\* Mutation: the synthetic candles carry the next candle's open.
RECURSIVE GapCandlesFromNext(_, _, _, _)
GapCandlesFromNext(cur, next, expected, ms) ==
  IF expected < next.t
  THEN <<[t |-> expected, open |-> next.open, high |-> next.open,
          low |-> next.open, close |-> next.open]>>
       \o GapCandlesFromNext(cur, next, expected + ms, ms)
  ELSE <<>>

\* Mutation: the gap loop runs once at most, so a gap of two buckets or more
\* keeps a hole.
GapCandlesOnce(cur, next, expected, ms) ==
  IF expected < next.t
  THEN <<[t |-> expected, open |-> cur.close, high |-> cur.close,
          low |-> cur.close, close |-> cur.close]>>
  ELSE <<>>

\* The inner while loop of the gap fill: flat candles carrying cur.close at
\* expected, expected + ms, ... while expected < next.t.
RECURSIVE GapCandles(_, _, _, _)
GapCandles(cur, next, expected, ms) ==
  IF expected < next.t
  THEN <<[t |-> expected, open |-> cur.close, high |-> cur.close,
          low |-> cur.close, close |-> cur.close]>>
       \o GapCandles(cur, next, expected + ms, ms)
  ELSE <<>>

\* The outer loop of the gap fill, from the i-th candle on (1-based).
RECURSIVE FillGaps(_, _, _)
FillGaps(cs, i, ms) ==
  IF i > Len(cs) THEN <<>>
  ELSE IF i = Len(cs) THEN <<cs[i]>>
  ELSE <<cs[i]>> \o GapCandles(cs[i], cs[i + 1], cs[i].t + ms, ms)
                 \o FillGaps(cs, i + 1, ms)

\* Mutation: the guard lets intervalMs = 0 through.  Every bucket key is
\* then the same value (NaN in the source, 0 here) and all points fall
\* into one candle.
buildCandlesZeroInterval(pts, ms, o) ==
  IF ms < 0 THEN <<>>
  ELSE IF Len(pts) = 0 THEN <<>>
  ELSE IF ms = 0
  THEN LET sorted == SortByT(pts)
           ps == {sorted[i].p : i \in 1..Len(sorted)}
       IN <<[t |-> 0, open |-> sorted[1].p,
             high |-> CHOOSE h \in ps : \A q \in ps : q <= h,
             low |-> CHOOSE l \in ps : \A q \in ps : q >= l,
             close |-> sorted[Len(sorted)].p]>>
  ELSE LET fillGaps == ~(o # None /\ o[1] = FALSE)
           sorted == SortByT(pts)
           candles == SortByT(Aggregate(sorted, 1, <<>>, ms))
       IN IF ~fillGaps \/ Len(candles) = 0 THEN candles
          ELSE FillGaps(candles, 1, ms)

\* buildCandles(points, intervalMs, opts); opts is None or Some(fillGaps).
buildCandles(pts, ms, o) ==
  IF ms <= 0 THEN <<>>
  ELSE IF Len(pts) = 0 THEN <<>>
  ELSE LET fillGaps == ~(o # None /\ o[1] = FALSE)
           sorted == SortByT(pts)
           candles == SortByT(Aggregate(sorted, 1, <<>>, ms))
       IN IF ~fillGaps \/ Len(candles) = 0 THEN candles
          ELSE FillGaps(candles, 1, ms)

(***************************************************************************)
(* SpecBC: buildCandles applied to bounded arguments.                      *)
(***************************************************************************)
Intervals == {-1, 0, 1, 2}
OptsSet == {None, Some(TRUE), Some(FALSE)}

BCInit ==
  /\ points \in SeqsUpTo(PricePoints, MaxPts)
  /\ intervalMs \in Intervals
  /\ bcCall = [op |-> "none", opts |-> None, ret |-> <<>>]
  /\ TSIdle
  /\ ViewIdle
  /\ HookIdle
  /\ HistIdle
  /\ AppIdle
  /\ ExtIdle

BCBuild ==
  /\ \E o \in OptsSet :
       bcCall' = [op |-> "buildCandles", opts |-> o,
                  ret |-> buildCandles(points, intervalMs, o)]
  /\ UNCHANGED <<points, intervalMs, notBC>>

BCNext == BCBuild

SpecBC == BCInit /\ [][BCNext]_vars

(***************************************************************************)
(* Claims on buildCandles, checked under SpecBC.                           *)
(***************************************************************************)

\* The buckets that hold at least one point.
BucketsOf(pts, ms) == {BucketStart(pts[i].t, ms) : i \in 1..Len(pts)}

\* Time order of the points of the argument: by t, equal t by position.
Earlier(pts, i, j) == pts[i].t < pts[j].t \/ (pts[i].t = pts[j].t /\ i <= j)

\* The candle the points of bucket b aggregate to.
RealCandle(pts, ms, b) ==
  LET idx == {i \in 1..Len(pts) : BucketStart(pts[i].t, ms) = b}
      first == CHOOSE i \in idx : \A j \in idx : Earlier(pts, i, j)
      last == CHOOSE i \in idx : \A j \in idx : Earlier(pts, j, i)
  IN [t |-> b,
      open |-> pts[first].p,
      high |-> CHOOSE h \in {pts[i].p : i \in idx} : \A i \in idx : pts[i].p <= h,
      low |-> CHOOSE l \in {pts[i].p : i \in idx} : \A i \in idx : pts[i].p >= l,
      close |-> pts[last].p]

\* C8 (aggregation): with gap filling disabled, non-empty points and
\* intervalMs > 0, buildCandles returns exactly one candle per distinct bucket
\* floor(t/intervalMs)*intervalMs; its open is the p of the bucket's earliest
\* point in time order, its close the p of the latest, its high the maximum
\* and its low the minimum p of the bucket.
C8_Aggregation ==
  (bcCall.op = "buildCandles" /\ bcCall.opts = Some(FALSE)
     /\ points # <<>> /\ intervalMs > 0) =>
    LET out == bcCall.ret
        buckets == BucketsOf(points, intervalMs)
    IN /\ Len(out) = Cardinality(buckets)
       /\ {out[i].t : i \in 1..Len(out)} = buckets
       /\ \A i \in 1..Len(out) : out[i] = RealCandle(points, intervalMs, out[i].t)

\* Three points of one bucket, given out of time order, whose candle has
\* open, high and low all different and a close other than its open.
C8_Witness ==
  /\ bcCall.op = "buildCandles"
  /\ bcCall.opts = Some(FALSE)
  /\ intervalMs > 0
  /\ Len(points) = 3
  /\ ~IsSortedByT(points)
  /\ \E i \in 1..Len(bcCall.ret) :
       /\ bcCall.ret[i].low < bcCall.ret[i].open
       /\ bcCall.ret[i].open < bcCall.ret[i].high
       /\ bcCall.ret[i].close # bcCall.ret[i].open

\* C9 (gap fill): with gap filling on (the default), consecutive candles of
\* the result have bucket starts exactly intervalMs apart, and every
\* synthesized candle (one whose bucket holds no point) is flat at the close
\* of the nearest preceding real candle.
C9_GapFill ==
  (bcCall.op = "buildCandles" /\ bcCall.opts # Some(FALSE)) =>
    LET out == bcCall.ret
        buckets == BucketsOf(points, intervalMs)
        real(i) == out[i].t \in buckets
    IN /\ \A i \in 1..(Len(out) - 1) : out[i + 1].t - out[i].t = intervalMs
       /\ \A i \in 1..Len(out) :
            ~real(i) =>
              \E j \in 1..(i - 1) :
                /\ real(j)
                /\ \A k \in (j + 1)..i : ~real(k)
                /\ out[i].open = out[j].close
                /\ out[i].high = out[j].close
                /\ out[i].low = out[j].close
                /\ out[i].close = out[j].close

\* A gap of two missing buckets was filled, between real candles whose
\* closes and opens differ.
C9_Witness ==
  /\ bcCall.op = "buildCandles"
  /\ bcCall.opts = None
  /\ intervalMs > 0
  /\ LET out == bcCall.ret
         buckets == BucketsOf(points, intervalMs)
     IN \E i \in 1..(Len(out) - 3) :
          /\ out[i].t \in buckets
          /\ out[i + 1].t \notin buckets
          /\ out[i + 2].t \notin buckets
          /\ out[i + 3].t \in buckets
          /\ out[i].close # out[i].open
          /\ out[i].close # out[i + 3].open

\* C24 (precondition checks): buildCandles returns the empty sequence, and
\* returns normally, whenever intervalMs <= 0 or points is empty, with any
\* opts.
C24_EmptyResult ==
  (bcCall.op = "buildCandles" /\ (intervalMs <= 0 \/ points = <<>>)) =>
    bcCall.ret = <<>>

\* Called with points and a non-positive interval.
C24_Witness ==
  /\ bcCall.op = "buildCandles"
  /\ intervalMs <= 0
  /\ points # <<>>
  /\ bcCall.ret = <<>>

\* Called with no points and a positive interval.
C24_WitnessNoPoints ==
  /\ bcCall.op = "buildCandles"
  /\ intervalMs > 0
  /\ points = <<>>
  /\ bcCall.ret = <<>>

\* C27 (one candle per bucket): every candle buildCandles returns, with or
\* without gap filling, has a t that is a multiple of intervalMs, and the
\* result is strictly ascending by t, whatever the order of the points.
C27_BucketGrid ==
  bcCall.op = "buildCandles" =>
    LET out == bcCall.ret
    IN /\ \A i \in 1..Len(out) : intervalMs > 0 /\ out[i].t % intervalMs = 0
       /\ \A i \in 1..(Len(out) - 1) : out[i].t < out[i + 1].t

\* Points given out of time order, none on a bucket boundary of the lower
\* bucket, aggregated without gap filling into two candles.
C27_Witness ==
  /\ bcCall.op = "buildCandles"
  /\ bcCall.opts = Some(FALSE)
  /\ intervalMs = 2
  /\ ~IsSortedByT(points)
  /\ \E i \in 1..Len(points) : points[i].t % intervalMs # 0
  /\ Len(bcCall.ret) = 2

\* Points given out of time order, with gap filling.
C27_WitnessFilled ==
  /\ bcCall.op = "buildCandles"
  /\ bcCall.opts = None
  /\ intervalMs = 1
  /\ ~IsSortedByT(points)
  /\ Len(bcCall.ret) > Len(points)

(***************************************************************************)
(* The delayed view: useCandles (hooks/useCandles.ts) and BigPercent       *)
(* (components/BigPercent.tsx), as HomeContent renders them.               *)
(***************************************************************************)
MinuteMs == 60000
SecondMs == 1000

\* tfToMs (lib/timeframes.ts).
tfToMs(m) == m * MinuteMs

\* arr.filter((p) => p.t <= displayCutoff).
FilterAtOrBefore(arr, displayCutoff) ==
  LET keep(pt) == pt.t <= displayCutoff
  IN SelectSeq(arr, keep)

\* Mutation: the loop stops one bucket short of the current one.
RECURSIVE ForwardFillShort(_, _, _, _)
ForwardFillShort(last, t, currentBucketStart, ms) ==
  IF t < currentBucketStart
  THEN LET c == [t |-> t, open |-> last.close, high |-> last.close,
                 low |-> last.close, close |-> last.close]
       IN <<c>> \o ForwardFillShort(c, t + ms, currentBucketStart, ms)
  ELSE <<>>

\* Mutation: the doji candles carry the open of the last candle.
RECURSIVE ForwardFillFromOpen(_, _, _, _)
ForwardFillFromOpen(last, t, currentBucketStart, ms) ==
  IF t <= currentBucketStart
  THEN LET c == [t |-> t, open |-> last.open, high |-> last.open,
                 low |-> last.open, close |-> last.open]
       IN <<c>> \o ForwardFillFromOpen(c, t + ms, currentBucketStart, ms)
  ELSE <<>>

\* The while loop of useCandles: the doji candles pushed for t, t + ms, ...
\* while t <= currentBucketStart, each carrying the close of the one before.
RECURSIVE ForwardFill(_, _, _, _)
ForwardFill(last, t, currentBucketStart, ms) ==
  IF t <= currentBucketStart
  THEN LET c == [t |-> t, open |-> last.close, high |-> last.close,
                 low |-> last.close, close |-> last.close]
       IN <<c>> \o ForwardFill(c, t + ms, currentBucketStart, ms)
  ELSE <<>>

\* Mutation: only the live points are filtered (the backfill is passed whole).
useCandlesBackfillUnfiltered(live, bf, now, delayMs, m) ==
  LET ms == tfToMs(m)
      displayCutoff == now - delayMs
      filteredLive == FilterAtOrBefore(ToArray(live), displayCutoff)
      candlesAll == buildCandles(bf \o filteredLive, ms, None)
  IN IF Len(candlesAll) = 0 THEN candlesAll
     ELSE LET currentBucketStart == BucketStart(displayCutoff, ms)
              last == candlesAll[Len(candlesAll)]
          IN candlesAll \o ForwardFill(last, last.t + ms, currentBucketStart, ms)

\* Mutation: both filters compare with < (a point at the cutoff is dropped).
useCandlesExclusive(live, bf, now, delayMs, m) ==
  LET ms == tfToMs(m)
      displayCutoff == now - delayMs
      filteredBackfill == FilterAtOrBefore(bf, displayCutoff - 1)
      filteredLive == FilterAtOrBefore(ToArray(live), displayCutoff - 1)
      candlesAll == buildCandles(filteredBackfill \o filteredLive, ms, None)
  IN IF Len(candlesAll) = 0 THEN candlesAll
     ELSE LET currentBucketStart == BucketStart(displayCutoff, ms)
              last == candlesAll[Len(candlesAll)]
          IN candlesAll \o ForwardFill(last, last.t + ms, currentBucketStart, ms)

\* useCandles(series, backfill, nowTs, delayMs, tf): the memoised value.
useCandles(live, bf, now, delayMs, m) ==
  LET ms == tfToMs(m)
      displayCutoff == now - delayMs
      filteredBackfill == FilterAtOrBefore(bf, displayCutoff)
      filteredLive == FilterAtOrBefore(ToArray(live), displayCutoff)
      candlesAll == buildCandles(filteredBackfill \o filteredLive, ms, None)
  IN IF Len(candlesAll) = 0 THEN candlesAll
     ELSE LET currentBucketStart == BucketStart(displayCutoff, ms)
              last == candlesAll[Len(candlesAll)]
          IN candlesAll \o ForwardFill(last, last.t + ms, currentBucketStart, ms)

\* Mutation: Math.floor in place of Math.ceil.
FloorDiv(x, d) == x \div d

\* Math.ceil(x / d) for integers, d > 0.
CeilDiv(x, d) == -((-x) \div d)

\* Mutation: the readout of lerpAt, which moves from the point at or before
\* displayTs towards the next buffered point (p rounded to the nearest unit).
BigPercentLerp(live, now, delayMs) ==
  LET displayTs == now - delayMs
      i == IndexAtOrBefore(live, displayTs)
  IN IF i < 0 THEN [pt |-> None, secs |-> None]
     ELSE LET prev == live[i + 1]
          IN IF i = Len(live) - 1 THEN [pt |-> Some(prev), secs |-> None]
             ELSE LET next == live[i + 2]
                  IN IF next.t <= prev.t \/ displayTs <= prev.t
                     THEN [pt |-> Some(prev), secs |-> None]
                     ELSE LET den == next.t - prev.t
                              num == (displayTs - prev.t) * (next.p - prev.p)
                          IN [pt |-> Some([t |-> displayTs,
                                           p |-> prev.p + (2 * num + den) \div (2 * den)]),
                              secs |-> None]

\* BigPercent: the point shown, or else the countdown seconds (None for the
\* indeterminate "waiting for market data").
BigPercent(live, now, delayMs) ==
  LET displayTs == now - delayMs
      pt == AtOrBefore(live, displayTs)
  IN IF pt = None
     THEN LET arr == ToArray(live)
              secs == IF Len(arr) = 0 THEN None
                      ELSE LET earliest == arr[1].t
                               remainingMs == earliest + delayMs - now
                           IN IF remainingMs <= 0 THEN Some(0)
                              ELSE Some(CeilDiv(remainingMs, SecondMs))
          IN [pt |-> None, secs |-> secs]
     ELSE [pt |-> pt, secs |-> None]

(***************************************************************************)
(* SpecView: one render of HomeContent over bounded inputs.                *)
(***************************************************************************)
ViewTimes == {k * MinuteMs : k \in 0..MaxT}

\* The values of nowTs: the minute marks and one instant just past a mark.
NowTimes == ViewTimes \cup {MinuteMs + 1}
ViewProbs == {0, 1}
ViewPoints == [t : ViewTimes, p : ViewProbs]
DelaySecs == {0, 60, 120}
Timeframes == {1, 2}

\* HomeContent: delayMs = delaySec * 1000.
DelayMs == delaySec * SecondMs

\* The live series is a TimeSeries fed with wall-clock timestamps, so it is
\* sorted by t; the backfill is whatever the history endpoint returned.
ViewInit ==
  /\ series \in {a \in SeqsUpTo(ViewPoints, MaxLive) : IsSortedByT(a)}
  /\ backfill \in SeqsUpTo(ViewPoints, MaxBackfill)
  /\ nowTs \in NowTimes
  /\ delaySec \in DelaySecs
  /\ tf \in Timeframes
  /\ view = [op |-> "none", candles |-> <<>>, readout |-> NoReadout]
  /\ TSIdle
  /\ BCIdle
  /\ HookIdle
  /\ HistIdle
  /\ AppIdle
  /\ ExtIdle

\* A render: useCandles(activeSeries, activeBackfill, nowTs, delayMs, tf) and
\* <BigPercent series={activeSeries} nowTs={nowTs} delayMs={delayMs} />.
ViewRender ==
  /\ view' = [op |-> "render",
              candles |-> useCandles(series, backfill, nowTs, DelayMs, tf),
              readout |-> BigPercent(series, nowTs, DelayMs)]
  /\ UNCHANGED <<series, backfill, nowTs, delaySec, tf, notView>>

ViewNext == ViewRender

SpecView == ViewInit /\ [][ViewNext]_vars

(***************************************************************************)
(* Claims on the delayed view, checked under SpecView.                     *)
(***************************************************************************)
DisplayCutoff == nowTs - DelayMs

\* The points at or before a cutoff, backfill first, as they are aggregated.
VisibleAt(cutoff) ==
  LET shown(pt) == pt.t <= cutoff
  IN SelectSeq(backfill, shown) \o SelectSeq(series, shown)

\* The live and backfill points after the cutoff.
Hidden(arr) == {i \in 1..Len(arr) : arr[i].t > DisplayCutoff}

\* C1 (spoiler-safety): a point with t > nowTs - delayMs contributes to no
\* candle of the delayed view and is never the point of the readout: every
\* candle starts at or before the cutoff, a candle whose bucket holds a
\* visible point is the aggregate of the visible points of that bucket alone,
\* any other candle takes its four values from the candle before it, the
\* whole sequence is the one obtained with the later points removed from
\* both inputs, and the readout's point is a live point at or before the
\* cutoff.
C1_SpoilerSafety ==
  view.op = "render" =>
    LET visible == VisibleAt(DisplayCutoff)
        ms == tfToMs(tf)
        buckets == BucketsOf(visible, ms)
        cs == view.candles
        shown(pt) == pt.t <= DisplayCutoff
    IN /\ \A i \in 1..Len(cs) :
            /\ cs[i].t <= DisplayCutoff
            /\ cs[i].t \in buckets => cs[i] = RealCandle(visible, ms, cs[i].t)
            /\ cs[i].t \notin buckets =>
                 /\ i > 1
                 /\ {cs[i].open, cs[i].high, cs[i].low, cs[i].close} = {cs[i - 1].close}
       /\ visible = <<>> => cs = <<>>
       /\ cs = useCandles(SelectSeq(series, shown), SelectSeq(backfill, shown),
                          nowTs, DelayMs, tf)
       /\ view.readout.pt # None =>
            /\ view.readout.pt[1] \in Range(series)
            /\ view.readout.pt[1].t <= DisplayCutoff

\* A render with a live point and a backfill point after the cutoff, each in
\* the bucket of a visible point whose p differs, and a point shown.
C1_Witness ==
  /\ view.op = "render"
  /\ view.candles # <<>>
  /\ view.readout.pt # None
  /\ \E i \in Hidden(series) : \E j \in 1..Len(series) :
       /\ series[j].t <= DisplayCutoff
       /\ BucketStart(series[j].t, tfToMs(tf)) = BucketStart(series[i].t, tfToMs(tf))
       /\ series[j].p # series[i].p
  /\ Hidden(backfill) # {}

\* C2 as stated (exclusive boundary): no point with t >= displayCutoff is
\* shown; a point exactly at the cutoff is neither the readout's point nor a
\* contributor to the candles.
C2_ExclusiveBoundary ==
  view.op = "render" =>
    LET before(pt) == pt.t < DisplayCutoff
    IN /\ view.readout.pt # None => view.readout.pt[1].t < DisplayCutoff
       /\ view.candles = useCandles(SelectSeq(series, before), SelectSeq(backfill, before),
                                    nowTs, DelayMs, tf)

\* C2 as amended (inclusive boundary): no point with t > displayCutoff is
\* shown, and a point with t exactly equal to displayCutoff is shown: a live
\* point at the cutoff makes the readout show a point with that timestamp,
\* and any point at the cutoff makes the candle of the cutoff's bucket exist
\* and close at the p of the last point at the cutoff (backfill before live,
\* each in sequence order).
C2_InclusiveBoundary ==
  view.op = "render" =>
    LET visible == VisibleAt(DisplayCutoff)
        atCutoff == {i \in 1..Len(visible) : visible[i].t = DisplayCutoff}
        cs == view.candles
    IN /\ view.readout.pt # None => view.readout.pt[1].t <= DisplayCutoff
       /\ \A i \in 1..Len(cs) : cs[i].t <= DisplayCutoff
       /\ (\E i \in 1..Len(series) : series[i].t = DisplayCutoff) =>
            /\ view.readout.pt # None
            /\ view.readout.pt[1].t = DisplayCutoff
       /\ atCutoff # {} =>
            /\ cs # <<>>
            /\ cs[Len(cs)].t = BucketStart(DisplayCutoff, tfToMs(tf))
            /\ cs[Len(cs)].close =
                 visible[CHOOSE i \in atCutoff : \A j \in atCutoff : j <= i].p

\* A render in which the only visible points lie exactly at the cutoff, one
\* live and one backfill, with different p.
C2_Witness ==
  /\ view.op = "render"
  /\ Len(series) >= 1
  /\ Len(backfill) = 1
  /\ backfill[1].t = DisplayCutoff
  /\ \E i \in 1..Len(series) :
       /\ series[i].t = DisplayCutoff
       /\ series[i].p # backfill[1].p
  /\ \A i \in 1..Len(VisibleAt(DisplayCutoff)) : VisibleAt(DisplayCutoff)[i].t = DisplayCutoff
  /\ view.candles # <<>>

\* C3 (forward extension reaches the cutoff): whenever the delayed view is
\* non-empty, its last candle starts at floor((nowTs - delayMs) / intervalMs)
\* * intervalMs.
C3_ForwardExtension ==
  (view.op = "render" /\ view.candles # <<>>) =>
    view.candles[Len(view.candles)].t = BucketStart(DisplayCutoff, tfToMs(tf))

\* The newest visible point is at least two buckets older than the current
\* delayed bucket, and the cutoff is not itself a bucket start.
C3_Witness ==
  /\ view.op = "render"
  /\ VisibleAt(DisplayCutoff) # <<>>
  /\ \A i \in 1..Len(VisibleAt(DisplayCutoff)) :
       VisibleAt(DisplayCutoff)[i].t + 2 * tfToMs(tf) <= BucketStart(DisplayCutoff, tfToMs(tf))
  /\ Len(view.candles) >= 3

\* The cutoff lies strictly inside the last candle's bucket.
C3_WitnessInsideBucket ==
  /\ view.op = "render"
  /\ view.candles # <<>>
  /\ view.candles[Len(view.candles)].t < DisplayCutoff

\* What buildCandles returns for the points at or before the cutoff.
CandlesAll == buildCandles(VisibleAt(DisplayCutoff), tfToMs(tf), None)

\* C28 (flat forward extension): the delayed view is the result of
\* buildCandles followed by the forward-extension candles; each of these is
\* flat (open = high = low = close) at the close of the last candle
\* buildCandles produced and lies one interval after the candle before it,
\* and none is appended when buildCandles returned no candle: with no point
\* at or before the cutoff the delayed view is empty.
C28_FlatExtension ==
  view.op = "render" =>
    LET cs == view.candles
        n == Len(CandlesAll)
    IN /\ Len(cs) >= n
       /\ SubSeq(cs, 1, n) = CandlesAll
       /\ n = 0 => cs = <<>>
       /\ VisibleAt(DisplayCutoff) = <<>> => cs = <<>>
       /\ \A i \in (n + 1)..Len(cs) :
            /\ cs[i].open = CandlesAll[n].close
            /\ cs[i].high = CandlesAll[n].close
            /\ cs[i].low = CandlesAll[n].close
            /\ cs[i].close = CandlesAll[n].close
            /\ cs[i].t = cs[i - 1].t + tfToMs(tf)

\* Two candles were appended after a last aggregated candle whose open and
\* close differ.
C28_Witness ==
  /\ view.op = "render"
  /\ CandlesAll # <<>>
  /\ Len(view.candles) >= Len(CandlesAll) + 2
  /\ CandlesAll[Len(CandlesAll)].open # CandlesAll[Len(CandlesAll)].close

\* Points exist, all of them after the cutoff: the view is empty.
C28_WitnessEmpty ==
  /\ view.op = "render"
  /\ series # <<>>
  /\ backfill # <<>>
  /\ VisibleAt(DisplayCutoff) = <<>>
  /\ view.candles = <<>>

\* The bucket of the earliest point at or before the cutoff.
EarliestBucket ==
  LET vis == VisibleAt(DisplayCutoff)
      first == CHOOSE i \in 1..Len(vis) : \A j \in 1..Len(vis) : vis[i].t <= vis[j].t
  IN BucketStart(vis[first].t, tfToMs(tf))

\* C33 (contiguity of the delayed view): a candle sequence returned by
\* useCandles is empty exactly when no point is at or before the cutoff;
\* otherwise it starts at the bucket of the earliest such point, ends at the
\* bucket of the cutoff, and each candle lies exactly one interval after the
\* one before it, so no bucket in between is missing or repeated.
C33_Contiguity ==
  view.op = "render" =>
    LET cs == view.candles
        ms == tfToMs(tf)
    IN /\ (cs = <<>>) = (VisibleAt(DisplayCutoff) = <<>>)
       /\ cs # <<>> =>
            /\ cs[1].t = EarliestBucket
            /\ cs[Len(cs)].t = BucketStart(DisplayCutoff, ms)
            /\ \A i \in 1..(Len(cs) - 1) : cs[i + 1].t = cs[i].t + ms

\* A view of four candles: the first and the third hold points, the second
\* fills the gap between them and the fourth extends to the cutoff's bucket.
C33_Witness ==
  /\ view.op = "render"
  /\ Len(view.candles) = 4
  /\ Len(CandlesAll) = 3
  /\ BucketsOf(VisibleAt(DisplayCutoff), tfToMs(tf))
       = {view.candles[1].t, view.candles[3].t}

\* A gap of two buckets between the two candles that hold points.
C33_WitnessWideGap ==
  /\ view.op = "render"
  /\ Len(view.candles) = 4
  /\ BucketsOf(VisibleAt(DisplayCutoff), tfToMs(tf))
       = {view.candles[1].t, view.candles[4].t}

\* low <= open <= high and low <= close <= high.
OhlcOrdered(c) ==
  /\ c.low <= c.open
  /\ c.open <= c.high
  /\ c.low <= c.close
  /\ c.close <= c.high

\* C34 (OHLC ordering): every candle returned by useCandles, and every
\* candle buildCandles returned to it, whether it aggregates points, fills a
\* gap or extends the view forward, has low <= open <= high and
\* low <= close <= high.
C34_OhlcOrdering ==
  view.op = "render" =>
    /\ \A i \in 1..Len(view.candles) : OhlcOrdered(view.candles[i])
    /\ \A i \in 1..Len(CandlesAll) : OhlcOrdered(CandlesAll[i])

\* A view whose first candle aggregates points that rise and fall back (its
\* high is above both open and close) and whose last candle is synthetic.
C34_Witness ==
  /\ view.op = "render"
  /\ Len(view.candles) > Len(CandlesAll)
  /\ view.candles[1].open < view.candles[1].high
  /\ view.candles[1].close < view.candles[1].high

\* The same ordering for every call of buildCandles, with and without gap
\* filling, on unsorted points (checked under SpecBC).
BuildCandlesOhlcOrdered ==
  bcCall.op = "buildCandles" =>
    \A i \in 1..Len(bcCall.ret) : OhlcOrdered(bcCall.ret[i])

\* The positions of the live series that hold a point at or before the cutoff.
VisibleLive == {i \in 1..Len(series) : series[i].t <= DisplayCutoff}

RemainingMs == Max2(0, series[1].t + DelayMs - nowTs)

\* C20 (countdown): when the live series has no point with
\* t <= nowTs - delayMs, the readout reports
\* ceil(max(0, earliest.t + delayMs - nowTs) / 1000) seconds for the first
\* buffered point, and the indeterminate state exactly when the buffer is
\* empty.
C20_Countdown ==
  (view.op = "render" /\ VisibleLive = {}) =>
    /\ view.readout.pt = None
    /\ view.readout.secs = None <=> series = <<>>
    /\ series # <<>> =>
         LET n == view.readout.secs[1]
         IN /\ n >= 0
            /\ n * SecondMs >= RemainingMs
            /\ (n - 1) * SecondMs < RemainingMs

\* A countdown over a time that is no whole number of seconds, with a second
\* buffered point later than the earliest.
C20_Witness ==
  /\ view.op = "render"
  /\ VisibleLive = {}
  /\ Len(series) = 2
  /\ series[1].t < series[2].t
  /\ RemainingMs % SecondMs # 0
  /\ view.readout.secs = Some(RemainingMs \div SecondMs + 1)

\* An empty buffer: the readout is indeterminate.
C20_WitnessEmpty ==
  /\ view.op = "render"
  /\ series = <<>>
  /\ view.readout = NoReadout

(***************************************************************************)
(* useMarketWS (lib/useMarketWS.ts): the poll-only dual-outcome feed.      *)
(*                                                                         *)
(* A JavaScript number is [nan, v]: NaN, or the finite value v in units of *)
(* 1/One.  The quoted prices are chosen so that every halving is exact.    *)
(***************************************************************************)
One == 8

Num(v) == [nan |-> FALSE, v |-> v]
NaN == [nan |-> TRUE, v |-> 0]

\* parseFloat on the price strings of the model; NaN for what is no number.
parseFloat(str) ==
  CASE str = "0.25" -> Num(2)
    [] str = "0.75" -> Num(6)
    [] str = "1.25" -> Num(10)
    [] OTHER -> NaN

\* new TimeSeries({ maxPoints: 50000, maxAgeMs: 1000 * 60 * 60 * 48 })
HookMaxPoints == 50000
HookMaxAgeMs == 1000 * 60 * 60 * 48
NewTimeSeries == <<>>

\* A TOB entry {}.
EmptyTOB == [bestBid |-> None, bestAsk |-> None, last |-> None]

\* The object {} of tobRef.
EmptyTobMap == [k \in Tokens |-> None]

\* clamp01 = Math.max(0, Math.min(1, n)); NaN propagates.
clamp01(n) == IF n.nan THEN NaN ELSE Num(Max2(0, Min2(One, n.v)))

\* (a + b) / 2 and 1 - a on numbers.
Avg(a, b) == IF a.nan \/ b.nan THEN NaN ELSE Num((a.v + b.v) \div 2)
OneMinus(a) == IF a.nan THEN NaN ELSE Num(One - a.v)

\* Mutation: last is preferred over the mid of bid and ask.
midFromLastFirst(t) ==
  IF t = None THEN None
  ELSE LET bb == t[1].bestBid
           ba == t[1].bestAsk
           last == t[1].last
       IN IF last # None THEN last
          ELSE IF bb # None /\ ba # None THEN Some(Avg(bb[1], ba[1]))
          ELSE IF bb # None THEN bb
          ELSE IF ba # None THEN ba
          ELSE None

\* midFrom(t): t is None (undefined) or Some(TOB).
midFrom(t) ==
  IF t = None THEN None
  ELSE LET bb == t[1].bestBid
           ba == t[1].bestAsk
           last == t[1].last
       IN IF bb # None /\ ba # None THEN Some(Avg(bb[1], ba[1]))
          ELSE IF last # None THEN last
          ELSE IF bb # None THEN bb
          ELSE IF ba # None THEN ba
          ELSE None

\* Mutation: with only the NO side known, its mid is used unflipped.
computeBlendedProbNoFlip(tob, y, n) ==
  LET my == midFrom(tob[y])
      mn == midFrom(tob[n])
  IN IF my # None /\ mn # None THEN Some(clamp01(Avg(my[1], OneMinus(mn[1]))))
     ELSE IF my # None THEN Some(clamp01(my[1]))
     ELSE IF mn # None THEN Some(clamp01(mn[1]))
     ELSE None

\* computeBlendedProb, in a callback closing over the tokens y and n.
computeBlendedProb(tob, y, n) ==
  LET my == midFrom(tob[y])
      mn == midFrom(tob[n])
  IN IF my # None /\ mn # None THEN Some(clamp01(Avg(my[1], OneMinus(mn[1]))))
     ELSE IF my # None THEN Some(clamp01(my[1]))
     ELSE IF mn # None THEN Some(clamp01(OneMinus(mn[1])))
     ELSE None

\* Mutation: the YES side is preferred over the NO side.
computeNoProbPrefersYes(tob, y, n) ==
  LET my == midFrom(tob[y])
      mn == midFrom(tob[n])
  IN IF my # None THEN Some(clamp01(OneMinus(my[1])))
     ELSE IF mn # None THEN Some(clamp01(mn[1]))
     ELSE None

\* Mutation: the NO value has no fallback to the flipped YES mid.
computeNoProbNoFallback(tob, y, n) ==
  LET mn == midFrom(tob[n])
  IN IF mn # None THEN Some(clamp01(mn[1])) ELSE None

\* computeNoProb.
computeNoProb(tob, y, n) ==
  LET my == midFrom(tob[y])
      mn == midFrom(tob[n])
  IN IF mn # None THEN Some(clamp01(mn[1]))
     ELSE IF my # None THEN Some(clamp01(OneMinus(my[1])))
     ELSE None

\* Mutation: a null response clears the field.
WriteFieldClears(st, tok, field, resp) ==
  IF st.thrown THEN st
  ELSE IF st.tob[tok] = None
  THEN IF resp = None THEN st ELSE [st EXCEPT !.thrown = TRUE]
  ELSE IF resp = None
  THEN [st EXCEPT !.tob[tok] = Some([@[1] EXCEPT ![field] = None])]
  ELSE [st EXCEPT !.tob[tok] = Some([@[1] EXCEPT ![field] = Some(parseFloat(resp[1]))])]

\* Mutation: a write to a token without an entry creates the entry instead of
\* throwing.
WriteFieldCreates(st, tok, field, resp) ==
  IF st.thrown \/ resp = None THEN st
  ELSE IF st.tob[tok] = None
  THEN [st EXCEPT !.tob[tok] =
          Some([EmptyTOB EXCEPT ![field] = Some(parseFloat(resp[1]))])]
  ELSE [st EXCEPT !.tob[tok] = Some([@[1] EXCEPT ![field] = Some(parseFloat(resp[1]))])]

\* if (resp != null) tobRef.current[tok].field = parseFloat(resp), on
\* st = [tob, thrown]: the assignment throws a TypeError when the map has no
\* entry for tok; what was written before stays written.
WriteField(st, tok, field, resp) ==
  IF st.thrown \/ resp = None THEN st
  ELSE IF st.tob[tok] = None THEN [st EXCEPT !.thrown = TRUE]
  ELSE [st EXCEPT !.tob[tok] = Some([@[1] EXCEPT ![field] = Some(parseFloat(resp[1]))])]

\* Mutation: the push is guarded against undefined only, not against NaN.
PushProbNaNUnchecked(arr, prob, tNow, tok) ==
  IF prob # None
  THEN TimeSeriesPush(arr, [t |-> tNow, p |-> prob[1].v, src |-> tok],
                      HookMaxPoints, Some(HookMaxAgeMs))
  ELSE arr

\* if (prob != null && !Number.isNaN(prob)) ref.current.push({ t: tNow, p: prob }).
\* The field src is history: the token whose poll callback pushed the point.
PushProb(arr, prob, tNow, tok) ==
  IF prob # None /\ ~prob[1].nan
  THEN TimeSeriesPush(arr, [t |-> tNow, p |-> prob[1].v, src |-> tok],
                      HookMaxPoints, Some(HookMaxAgeMs))
  ELSE arr

\* The four guarded TOB writes of the interval callback, in order.
TobWrites(tob, c, buy, sell) ==
  LET w0 == [tob |-> tob, thrown |-> FALSE]
      w1 == WriteField(w0, c.yes, "bestBid", buy.bestBid)
      w2 == WriteField(w1, c.yes, "bestAsk", buy.bestAsk)
      w3 == WriteField(w2, c.no, "bestBid", sell.bestBid)
  IN WriteField(w3, c.no, "bestAsk", sell.bestAsk)

\* Mutation: the probabilities are derived from the TOB as it was before the
\* callback's own writes.
PollBodyDerivesEarly(st, c, buy, sell, tNow) ==
  LET w4 == TobWrites(st.tob, c, buy, sell)
  IN IF w4.thrown
     THEN [tob |-> w4.tob, yes |-> st.yes, no |-> st.no,
           thrown |-> TRUE, probYes |-> None, probNo |-> None]
     ELSE LET probYes == computeBlendedProb(st.tob, c.yes, c.no)
              probNo == computeNoProb(st.tob, c.yes, c.no)
          IN [tob |-> w4.tob,
              yes |-> PushProb(st.yes, probYes, tNow, c.yes),
              no |-> PushProb(st.no, probNo, tNow, c.no),
              thrown |-> FALSE, probYes |-> probYes, probNo |-> probNo]

\* The interval callback after its await: the four TOB writes, tNow, the two
\* probabilities and the two pushes, inside try/catch.  c holds the tokens
\* the callback closes over; st = [tob, yes, no] are the refs' current values.
\* The result also tells whether a write threw and what was derived.
PollBody(st, c, buy, sell, tNow) ==
  LET w4 == TobWrites(st.tob, c, buy, sell)
  IN IF w4.thrown
     THEN [tob |-> w4.tob, yes |-> st.yes, no |-> st.no,
           thrown |-> TRUE, probYes |-> None, probNo |-> None]
     ELSE LET probYes == computeBlendedProb(w4.tob, c.yes, c.no)
              probNo == computeNoProb(w4.tob, c.yes, c.no)
          IN [tob |-> w4.tob,
              yes |-> PushProb(st.yes, probYes, tNow, c.yes),
              no |-> PushProb(st.no, probNo, tNow, c.no),
              thrown |-> FALSE, probYes |-> probYes, probNo |-> probNo]

\* Mutation: the reset effect forgets the NO series.
ResetEffectKeepsNo(st) ==
  [st EXCEPT !.yes = NewTimeSeries, !.tob = EmptyTobMap]

\* The first effect: fresh TimeSeries for both outcomes and an empty TOB map.
\* st = [tob, yes, no, timer].
ResetEffect(st) ==
  [st EXCEPT !.yes = NewTimeSeries, !.no = NewTimeSeries, !.tob = EmptyTobMap]

\* clearInterval(handle) on the intervals the browser holds: the oldest one
\* with the handle's callback is gone.
clearInterval(live, c) ==
  IF \A k \in 1..Len(live) : live[k] # c THEN live
  ELSE LET k == CHOOSE j \in 1..Len(live) :
                  live[j] = c /\ \A h \in 1..(j - 1) : live[h] # c
       IN SubSeq(live, 1, k - 1) \o SubSeq(live, k + 1, Len(live))

\* Mutation: clearPolling forgets the handle without clearing the interval.
clearPollingForgets(st) ==
  IF st.timer # None THEN [st EXCEPT !.timer = None] ELSE st

\* clearPolling, the cleanup of the second effect.  st.timer is
\* pollTimer.current, st.live the intervals the browser holds.
clearPolling(st) ==
  IF st.timer # None
  THEN [st EXCEPT !.timer = None, !.live = clearInterval(@, st.timer[1])]
  ELSE st

\* startPolling in the effect whose tokens are c: nothing when the ref holds
\* a handle, else setInterval and the handle into the ref.
startPolling(st, c) ==
  IF st.timer # None THEN st
  ELSE [st EXCEPT !.timer = Some(c), !.live = Append(@, c)]

\* The second effect for the props y, n: nothing when a token is missing,
\* else an empty TOB entry per token and startPolling.
PollEffect(st, y, n) ==
  IF y = None \/ n = None THEN st
  ELSE LET withEntries == [st.tob EXCEPT ![y[1]] = Some(EmptyTOB), ![n[1]] = Some(EmptyTOB)]
       IN startPolling([st EXCEPT !.tob = withEntries], [yes |-> y[1], no |-> n[1]])

(***************************************************************************)
(* SpecMid: midFrom applied to bounded arguments.                          *)
(***************************************************************************)
\* The values a TOB field can hold: undefined, or a number (0 and NaN
\* included: both are != null).
BidValues == {None, Some(Num(0)), Some(Num(2)), Some(NaN)}
AskValues == {None, Some(Num(0)), Some(Num(6)), Some(Num(10))}
LastValues == {None, Some(Num(0)), Some(Num(4)), Some(NaN)}

\* The arguments: undefined, or a TOB entry.
TobArgs ==
  {None} \cup {Some(e) : e \in [bestBid : BidValues, bestAsk : AskValues,
                                 last : LastValues]}

MidInit ==
  /\ tobArg \in TobArgs
  /\ midCall = [op |-> "none"]
  /\ TSIdle
  /\ BCIdle
  /\ ViewIdle
  /\ HookIdle
  /\ HistIdle
  /\ AppIdle
  /\ CtlIdle
  /\ ResIdle
  /\ WsIdle
  /\ WakeIdle

MidCall ==
  /\ midCall' = [op |-> "midFrom", ret |-> midFrom(tobArg)]
  /\ UNCHANGED <<tobArg, ctlVars, resVars, wsVars, wakeVars>>
  /\ UNCHANGED <<tsVars, bcVars, viewVars, hookVars, histVars, appVars>>

MidNext == MidCall

SpecMid == MidInit /\ [][MidNext]_vars

\* C25 (fallback order of mid): midFrom returns (bestBid + bestAsk) / 2 when
\* both are present; otherwise last when present; otherwise bestBid when
\* present; otherwise bestAsk when present; otherwise undefined, as it does
\* for a missing TOB entry.
C25_MidFallback ==
  midCall.op = "midFrom" =>
    IF tobArg = None THEN midCall.ret = None
    ELSE LET e == tobArg[1]
             both == e.bestBid # None /\ e.bestAsk # None
         IN /\ both => midCall.ret = Some(Avg(e.bestBid[1], e.bestAsk[1]))
            /\ (~both /\ e.last # None) => midCall.ret = e.last
            /\ (~both /\ e.last = None /\ e.bestBid # None) => midCall.ret = e.bestBid
            /\ (~both /\ e.last = None /\ e.bestBid = None /\ e.bestAsk # None) =>
                 midCall.ret = e.bestAsk
            /\ (e.last = None /\ e.bestBid = None /\ e.bestAsk = None) =>
                 midCall.ret = None

\* Bid, ask and last all present and last different from the mid.
C25_Witness ==
  /\ midCall.op = "midFrom"
  /\ tobArg # None
  /\ tobArg[1].bestBid = Some(Num(2))
  /\ tobArg[1].bestAsk = Some(Num(6))
  /\ tobArg[1].last = Some(Num(0))
  /\ midCall.ret = Some(Num(4))

\* Only a bid and last present: last wins over the bid.
C25_WitnessLast ==
  /\ midCall.op = "midFrom"
  /\ tobArg # None
  /\ tobArg[1].bestBid = Some(Num(2))
  /\ tobArg[1].bestAsk = None
  /\ midCall.ret = Some(Num(4))

\* Only an ask present.
C25_WitnessAsk ==
  /\ midCall.op = "midFrom"
  /\ tobArg # None
  /\ tobArg[1].bestBid = None
  /\ tobArg[1].last = None
  /\ midCall.ret = Some(Num(10))

(***************************************************************************)
(* Spec: one mounted useMarketWS hook.                                     *)
(***************************************************************************)
\* The resolved markets the page can hand to the hook.
Markets == {[yes |-> "A", no |-> "B"], [yes |-> "C", no |-> "D"]}

\* The (yesTokenId, noTokenId) props: market?.yesTokenId, market?.noTokenId.
TokenProps == {<<None, None>>} \cup {<<Some(m.yes), Some(m.no)>> : m \in Markets}

\* The /api/price responses: each field null or a string.
Quotes ==
  [bestBid : {None, Some("0.25"), Some("abc")},
   bestAsk : {None, Some("1.25")}]

\* The TOB fields that hold a value.
TobFields(tob) ==
  {<<k, f>> \in Tokens \X {"bestBid", "bestAsk", "last"} :
     tob[k] # None /\ tob[k][1][f] # None}

\* What a tick's responses carry for a field of a token: the response field
\* of the callback's own YES or NO token, nothing for anything else.
Resp(c, buy, sell, tok, f) ==
  IF f = "last" THEN None
  ELSE IF tok = c.yes THEN buy[f]
  ELSE IF tok = c.no THEN sell[f]
  ELSE None

\* History: the (token, field) pairs for which the responses carry a value,
\* the assignments the callback makes.
Assigned(c, buy, sell) ==
  {kf \in Tokens \X {"bestBid", "bestAsk", "last"} :
     Resp(c, buy, sell, kf[1], kf[2]) # None}

RemoveAt(q, i) == SubSeq(q, 1, i - 1) \o SubSeq(q, i + 1, Len(q))

\* Date.now() in milliseconds: the clock of the model ticks in minutes.
DateNow == clock * MinuteMs

\* After the first commit with no market: both effects have run, the second
\* returned early.
Init ==
  /\ HookIdle
  /\ HistIdle
  /\ AppIdle
  /\ ExtIdle
  /\ TSIdle
  /\ BCIdle
  /\ ViewIdle

\* The effects of a commit with the changed token props: the second effect's
\* cleanup (when it had set one up), then the first effect, then the second.
CommitTokens(props) ==
  LET st0 == [tob |-> tobRef, yes |-> seriesYesRef, no |-> seriesNoRef,
              timer |-> pollTimer, live |-> intervals]
      st1 == IF yesTokenId # None /\ noTokenId # None THEN clearPolling(st0) ELSE st0
      st2 == ResetEffect(st1)
      st3 == PollEffect(st2, props[1], props[2])
  IN /\ yesTokenId' = props[1]
     /\ noTokenId' = props[2]
     /\ tobRef' = st3.tob
     /\ currentTOB' = MemoAfterReset(currentTOB)
     /\ seriesYesRef' = st3.yes
     /\ seriesNoRef' = st3.no
     /\ pollTimer' = st3.timer
     /\ intervals' = st3.live
     /\ hookLast' = [op |-> "setTokens",
                     dropped |-> Len(seriesYesRef) + Len(seriesNoRef)
                                 + Cardinality(TobFields(tobRef))]

\* A commit with changed token props.
SetTokens ==
  \E props \in TokenProps :
    /\ props # <<yesTokenId, noTokenId>>
    /\ CommitTokens(props)
    /\ UNCHANGED <<inFlight, clock, ticks, notHook>>

\* An interval the browser holds fires: its callback issues the two fetches
\* and awaits them.
TimerFireIn(rest) ==
  /\ ticks < MaxTicks
  /\ Len(inFlight) < MaxInFlight
  /\ \E k \in 1..Len(intervals) : inFlight' = Append(inFlight, intervals[k])
  /\ ticks' = ticks + 1
  /\ hookLast' = [op |-> "timer", dropped |-> 0]
  /\ UNCHANGED <<yesTokenId, noTokenId, seriesYesRef, seriesNoRef, tobRef, currentTOB, pollTimer, intervals,
                 clock, rest>>

TimerFire == TimerFireIn(notHook)

\* Both responses of one suspended callback arrive, drawn from Q: it runs to
\* its end.
PollResolveIn(Q, rest) ==
  \E i \in 1..Len(inFlight) : \E buy \in Q, sell \in Q :
    /\ LET st == PollBody([tob |-> tobRef, yes |-> seriesYesRef, no |-> seriesNoRef],
                          inFlight[i], buy, sell, DateNow)
       IN /\ tobRef' = st.tob
          /\ currentTOB' = MemoAfterWrite(currentTOB, st.tob)
          /\ seriesYesRef' = st.yes
          /\ seriesNoRef' = st.no
          /\ hookLast' = [op |-> "poll", dropped |-> 0, c |-> inFlight[i],
                          thrown |-> st.thrown,
                          wrote |-> Assigned(inFlight[i], buy, sell),
                          probYes |-> st.probYes, probNo |-> st.probNo,
                          pushedYes |-> st.yes # seriesYesRef,
                          pushedNo |-> st.no # seriesNoRef]
    /\ inFlight' = RemoveAt(inFlight, i)
    /\ UNCHANGED <<yesTokenId, noTokenId, pollTimer, intervals, clock, ticks, rest>>

PollResolve == PollResolveIn(Quotes, notHook)

\* A fetch of one suspended callback fails: the catch logs, nothing changes.
PollRejectIn(rest) ==
  \E i \in 1..Len(inFlight) :
    /\ inFlight' = RemoveAt(inFlight, i)
    /\ hookLast' = [op |-> "pollError", dropped |-> 0]
    /\ UNCHANGED <<yesTokenId, noTokenId, seriesYesRef, seriesNoRef, tobRef, currentTOB, pollTimer, intervals,
                   clock, ticks, rest>>

PollReject == PollRejectIn(notHook)

\* Wall-clock time passes.
ClockAdvanceIn(rest) ==
  /\ clock < MaxClock
  /\ clock' = clock + 1
  /\ hookLast' = [op |-> "clock", dropped |-> 0]
  /\ UNCHANGED <<yesTokenId, noTokenId, seriesYesRef, seriesNoRef, tobRef, currentTOB, pollTimer, intervals,
                 inFlight, ticks, rest>>

ClockAdvance == ClockAdvanceIn(notHook)

Next == SetTokens \/ TimerFire \/ PollResolve \/ PollReject \/ ClockAdvance

Spec == Init /\ [][Next]_vars

(***************************************************************************)
(* Claims on useMarketWS, checked under Spec.                              *)
(***************************************************************************)

\* The token ids of the committed props.
CurrentTokens ==
  {k \in Tokens : yesTokenId = Some(k) \/ noTokenId = Some(k)}

\* C10 (reset on market change, state): right after a commit in which the
\* (yesTokenId, noTokenId) pair changed, and so before any later tick is
\* processed, the YES series and the NO series are fresh and empty and the
\* TOB map holds no field and no entry but the empty ones of the new tokens.
C10_ResetOnMarketChange ==
  hookLast.op = "setTokens" =>
    /\ seriesYesRef = <<>>
    /\ seriesNoRef = <<>>
    /\ TobFields(tobRef) = {}
    /\ \A k \in Tokens : tobRef[k] # None <=> k \in CurrentTokens

\* A switch from one market to another that discarded points of both series
\* and TOB fields, while a poll of the prior market is still in flight.
C10_Witness ==
  /\ hookLast.op = "setTokens"
  /\ hookLast.dropped >= 4
  /\ yesTokenId # None
  /\ \E i \in 1..Len(inFlight) : Some(inFlight[i].yes) # yesTokenId

\* The clamp of a number to [0, 1], by cases.
ClampedTo01(x) ==
  IF x.nan THEN NaN
  ELSE IF x.v < 0 THEN Num(0)
  ELSE IF x.v > One THEN Num(One)
  ELSE x

\* A tick ran to its end without a failed TOB write.
TickDone == hookLast.op = "poll" /\ ~hookLast.thrown

\* The mids of the tick's two tokens in the TOB the tick left behind.
TickMidYes == midFrom(tobRef[hookLast.c.yes])
TickMidNo == midFrom(tobRef[hookLast.c.no])

\* C13 (blended YES probability): after any tick the value derived for YES
\* is clamp01((mid(yes) + (1 - mid(no))) / 2) when both tokens have a mid,
\* clamp01(mid(yes)) when only YES has one, clamp01(1 - mid(no)) when only NO
\* has one, and undefined when neither has one.
C13_BlendedYes ==
  TickDone =>
    hookLast.probYes =
      CASE TickMidYes # None /\ TickMidNo # None ->
             Some(ClampedTo01(Avg(TickMidYes[1], OneMinus(TickMidNo[1]))))
        [] TickMidYes # None /\ TickMidNo = None -> Some(ClampedTo01(TickMidYes[1]))
        [] TickMidYes = None /\ TickMidNo # None ->
             Some(ClampedTo01(OneMinus(TickMidNo[1])))
        [] OTHER -> None

\* A tick with only the NO side known, whose flipped mid is not its own
\* mirror image.
C13_Witness ==
  /\ TickDone
  /\ TickMidYes = None
  /\ TickMidNo # None
  /\ ~TickMidNo[1].nan
  /\ hookLast.probYes = Some(Num(One - TickMidNo[1].v))
  /\ hookLast.probYes # TickMidNo

\* A tick with both mids known that blends them to a value that is neither.
C13_WitnessBoth ==
  /\ TickDone
  /\ TickMidYes # None
  /\ TickMidNo # None
  /\ hookLast.probYes # None
  /\ ~hookLast.probYes[1].nan
  /\ hookLast.probYes # TickMidYes
  /\ hookLast.probYes # Some(OneMinus(TickMidNo[1]))

\* C14 (blended NO probability): after any tick the value derived for NO is
\* clamp01(mid(no)) when the NO token has a mid, else clamp01(1 - mid(yes))
\* when the YES token has one, else undefined.
C14_BlendedNo ==
  TickDone =>
    hookLast.probNo =
      CASE TickMidNo # None -> Some(ClampedTo01(TickMidNo[1]))
        [] TickMidNo = None /\ TickMidYes # None ->
             Some(ClampedTo01(OneMinus(TickMidYes[1])))
        [] OTHER -> None

\* A tick with both mids known and different from each other's complement:
\* the NO value is the NO mid, not the flipped YES mid.
C14_Witness ==
  /\ TickDone
  /\ TickMidYes # None
  /\ TickMidNo # None
  /\ ~TickMidYes[1].nan
  /\ ~TickMidNo[1].nan
  /\ TickMidNo[1].v <= One
  /\ TickMidNo[1].v # One - TickMidYes[1].v
  /\ hookLast.probNo = TickMidNo

\* A tick with only the YES side known: the NO value is the flipped YES mid.
C14_WitnessFallback ==
  /\ TickDone
  /\ TickMidNo = None
  /\ TickMidYes # None
  /\ ~TickMidYes[1].nan
  /\ hookLast.probNo = Some(Num(One - TickMidYes[1].v))

\* No value was derived, or the value is NaN.
Unusable(prob) == prob = None \/ prob[1].nan

\* C15 (buffers only contain valid samples): every point of the YES and of
\* the NO series has a p within [0, 1], and a tick whose derived probability
\* for an outcome is undefined or NaN pushes nothing to that outcome's series.
C15_ValidSamples ==
  /\ \A i \in 1..Len(seriesYesRef) : seriesYesRef[i].p \in 0..One
  /\ \A i \in 1..Len(seriesNoRef) : seriesNoRef[i].p \in 0..One
  /\ hookLast.op = "poll" =>
       /\ Unusable(hookLast.probYes) => ~hookLast.pushedYes
       /\ Unusable(hookLast.probNo) => ~hookLast.pushedNo

\* A tick whose YES value is NaN (a bid that is no number) and whose NO value
\* is valid: only the NO point is pushed.
C15_Witness ==
  /\ TickDone
  /\ hookLast.probYes # None
  /\ hookLast.probYes[1].nan
  /\ ~hookLast.pushedYes
  /\ hookLast.pushedNo

\* A tick whose derived value had to be clamped: an ask above 1 alone.
C15_WitnessClamped ==
  /\ TickDone
  /\ TickMidYes # None
  /\ ~TickMidYes[1].nan
  /\ TickMidYes[1].v > One
  /\ TickMidNo = None
  /\ hookLast.pushedYes
  /\ hookLast.pushedNo

\* C16 (tick atomicity): a tick is one step.  The step that completes a tick
\* takes the TOB from its pre-state to exactly the pre-state plus this tick's
\* own writes, derives both probabilities from that TOB and pushes exactly
\* those to the series as they were before the step; every other tick in
\* flight stays suspended, whatever the order in which ticks resolve.
C16_TickAtomicity ==
  [][hookLast'.op = "poll" =>
       \E i \in 1..Len(inFlight) : \E buy \in Quotes, sell \in Quotes :
         LET c == inFlight[i]
             own == TobWrites(tobRef, c, buy, sell)
         IN /\ hookLast'.c = c
            /\ hookLast'.thrown = own.thrown
            /\ tobRef' = own.tob
            /\ inFlight' = RemoveAt(inFlight, i)
            /\ IF own.thrown
               THEN seriesYesRef' = seriesYesRef /\ seriesNoRef' = seriesNoRef
               ELSE /\ hookLast'.probYes = computeBlendedProb(tobRef', c.yes, c.no)
                    /\ hookLast'.probNo = computeNoProb(tobRef', c.yes, c.no)
                    /\ seriesYesRef' =
                         PushProb(seriesYesRef, hookLast'.probYes, DateNow, c.yes)
                    /\ seriesNoRef' =
                         PushProb(seriesNoRef, hookLast'.probNo, DateNow, c.no)
  ]_vars

\* C26 (TOB fields are overwritten, never removed): a completed tick removes
\* no TOB entry and no field that held a value, and it leaves a field
\* unchanged unless its responses carry a non-null value for that field of
\* that token: a null or absent bestBid or bestAsk changes nothing, a bid
\* never changes bestAsk, neither changes last, and the entries of other
\* tokens stay as they are.
C26_FieldsOverwrittenOnly ==
  [][hookLast'.op = "poll" =>
       \A tok \in Tokens :
         /\ (tobRef[tok] = None) = (tobRef'[tok] = None)
         /\ tobRef[tok] # None =>
              \A f \in {"bestBid", "bestAsk", "last"} :
                /\ tobRef[tok][1][f] # None => tobRef'[tok][1][f] # None
                /\ <<tok, f>> \notin hookLast'.wrote =>
                     tobRef'[tok][1][f] = tobRef[tok][1][f]
  ]_vars

\* A tick whose responses carried a bid for the YES token and nothing else,
\* on a TOB entry that held an ask: the ask is still there.
C26_Witness ==
  /\ hookLast.op = "poll"
  /\ ~hookLast.thrown
  /\ hookLast.wrote = {<<hookLast.c.yes, "bestBid">>}
  /\ tobRef[hookLast.c.yes] # None
  /\ tobRef[hookLast.c.yes][1].bestBid # None
  /\ tobRef[hookLast.c.yes][1].bestAsk # None

\* A tick pushed to both series while another tick of the same market is
\* still waiting for its responses.
C16_Witness ==
  /\ TickDone
  /\ hookLast.pushedYes
  /\ hookLast.pushedNo
  /\ inFlight # <<>>
  /\ inFlight[1] = hookLast.c

\* The number of points of a series with timestamp t.
CountAt(arr, t) == Cardinality({i \in 1..Len(arr) : arr[i].t = t})

C36_WitnessUnpaired ==
  /\ TickDone
  /\ hookLast.pushedNo
  /\ ~hookLast.pushedYes
  /\ Len(seriesNoRef) = Len(seriesYesRef) + 1
  /\ tobRef[hookLast.c.yes][1].bestBid = Some(NaN)
  /\ tobRef[hookLast.c.no][1].bestBid = Some(Num(2))

\* The callback whose tick completed last closes over a token pair that is
\* not the committed one: it was started for the market before a switch.
StaleTick ==
  /\ hookLast.op = "poll"
  /\ <<Some(hookLast.c.yes), Some(hookLast.c.no)>> # <<yesTokenId, noTokenId>>

\* C31 (stale tick after a switch): the step that completes a poll callback
\* started for another token pair than the committed one, whatever its
\* responses carry, pushes no point to the YES or the NO series and leaves
\* the TOB map as it was: no entry of the new market is written and none is
\* created for the old tokens.
C31_StaleTick ==
  [][StaleTick' =>
       /\ seriesYesRef' = seriesYesRef
       /\ seriesNoRef' = seriesNoRef
       /\ tobRef' = tobRef
  ]_vars

\* A callback of market A/B completes with a bid and an ask for both tokens
\* after the switch to C/D, whose series already hold a point each: its first
\* write throws and the points of C/D stay alone.
C31_Witness ==
  /\ StaleTick
  /\ hookLast.thrown
  /\ Cardinality(hookLast.wrote) = 4
  /\ yesTokenId # None
  /\ yesTokenId[1] \notin {hookLast.c.yes, hookLast.c.no}
  /\ Len(seriesYesRef) = 1
  /\ Len(seriesNoRef) = 1
  /\ seriesYesRef[1].src = yesTokenId[1]
  /\ TobFields(tobRef) # {}

\* A stale callback whose responses carry nothing: no write throws, both
\* derivations find no entry for the old tokens and nothing is pushed.
C31_WitnessNull ==
  /\ StaleTick
  /\ ~hookLast.thrown
  /\ hookLast.wrote = {}
  /\ hookLast.probYes = None
  /\ hookLast.probNo = None
  /\ yesTokenId # None
  /\ TobFields(tobRef) # {}

\* The tob of the hook's return value: the memoised object.
ReturnedTob == currentTOB.tob

\* The last step was a tick of the active market that assigned a field.
TickWrote ==
  /\ hookLast.op = "poll"
  /\ ~hookLast.thrown
  /\ hookLast.wrote # {}
  /\ {hookLast.c.yes, hookLast.c.no} = CurrentTokens

\* C39: the returned tob is the map the tick handler updates: after a tick
\* of the active market assigned bestBid or bestAsk of a token, the returned
\* tob has an entry for the token and the field holds the assigned value,
\* for the first token pair and for every later one.
C39_ReturnedTob ==
  TickWrote =>
    \A kf \in hookLast.wrote :
      /\ ReturnedTob[kf[1]] # None
      /\ ReturnedTob[kf[1]][1][kf[2]] = tobRef[kf[1]][1][kf[2]]

\* A tick of the first market assigned the YES bid, the ref's map holds it
\* and the returned tob has no entry for the token.
C39_Witness ==
  /\ TickWrote
  /\ hookLast.c.yes = "A"
  /\ <<"A", "bestBid">> \in hookLast.wrote
  /\ tobRef["A"] # None
  /\ tobRef["A"][1].bestBid # None
  /\ ReturnedTob["A"] = None

\* The same after the token pair has changed: a callback of the first
\* market is still suspended.
C39_WitnessSwitched ==
  /\ TickWrote
  /\ hookLast.c.yes = "C"
  /\ inFlight # <<>>
  /\ inFlight[1].yes = "A"
  /\ <<"D", "bestAsk">> \in hookLast.wrote
  /\ tobRef["D"][1].bestAsk # None
  /\ ReturnedTob = EmptyTobMap

\* The memoised object is never the ref's object after the mount, and it
\* stays empty.
ReturnedTobEmpty == ~currentTOB.isRef /\ ReturnedTob = EmptyTobMap

(***************************************************************************)
(* useMarketHistory (hooks/useMarketHistory.ts) with fetchHistory          *)
(* (services/polymarket.ts) and the /api/history route.                    *)
(***************************************************************************)
\* The history points an upstream answer can carry: t in seconds.
HistSeconds == {60}
HistPoints == [t : HistSeconds, p : {4}]
HistoryLists == SeqsUpTo(HistPoints, MaxHist)

\* The JSON bodies of the model: null, an array of points, an object with a
\* history array, or something else.
Bodies ==
  {[shape |-> "null", pts |-> <<>>], [shape |-> "malformed", pts |-> <<>>]}
    \cup [shape : {"object", "array"}, pts : HistoryLists]

\* What axios.get on the upstream endpoint does: it throws, or yields data.
Upstream == {[ok |-> FALSE, body |-> [shape |-> "null", pts |-> <<>>]]}
              \cup [ok : {TRUE}, body : Bodies]

\* What one fetchHistory call meets: a request to the route that fails, or
\* a route that asks the upstream and gets the answer up.
Answers ==
  {[netOk |-> FALSE, up |-> [ok |-> FALSE, body |-> [shape |-> "null", pts |-> <<>>]]]}
    \cup [netOk : {TRUE}, up : Upstream]

\* { history: [] }
EmptyHistory == [shape |-> "object", pts |-> <<>>]

\* The route's GET for a tokenId: the body it answers with.
RouteGET(up) ==
  IF ~up.ok THEN EmptyHistory
  ELSE IF up.body.shape = "null" \/ (up.body.shape = "array" /\ up.body.pts = <<>>)
  THEN EmptyHistory
  ELSE up.body

Fulfilled(v) == [status |-> "fulfilled", value |-> v]
Rejected == [status |-> "rejected", value |-> <<>>]

\* fetchHistory as Promise.allSettled sees it: netOk is whether the request
\* to the route got its answer; HistorySchema.parse throws on any body that
\* is neither { history: [...] } nor [...].
fetchHistory(netOk, body) ==
  IF ~netOk THEN Rejected
  ELSE IF body.shape \in {"object", "array"} THEN Fulfilled(body.pts)
  ELSE Rejected

\* value.map((h) => ({ t: h.t * 1000, p: h.p })).  The field src is history:
\* the token the points were fetched for.
toPricePoints(value, tok) ==
  [i \in 1..Len(value) |-> [t |-> value[i].t * 1000, p |-> value[i].p, src |-> tok]]

\* Mutation: Promise.all in place of Promise.allSettled: one failure empties
\* both outcomes and sets the error.
SettleBodyAllOrNothing(h, run, yesRes, noRes, isCancelled) ==
  IF isCancelled THEN [h EXCEPT !.writes = {}]
  ELSE IF yesRes.status = "fulfilled" /\ noRes.status = "fulfilled"
  THEN [backfillYes |-> toPricePoints(yesRes.value, run.yes),
        backfillNo |-> toPricePoints(noRes.value, run.no),
        loading |-> FALSE, error |-> h.error,
        writes |-> {"backfillYes", "backfillNo", "loading"}]
  ELSE [backfillYes |-> <<>>, backfillNo |-> <<>>, loading |-> FALSE,
        error |-> Some("Failed to fetch history"),
        writes |-> {"backfillYes", "backfillNo", "loading", "error"}]

\* The async run after its await, on h = [backfillYes, backfillNo, loading,
\* error, writes]: the two settled results are applied unless the run was
\* cancelled, and the finally clause clears loading unless it was cancelled.
\* Promise.allSettled never rejects and nothing in the try block throws, so
\* the catch clause is not entered.  writes is history: the setters called.
SettleBody(h, run, yesRes, noRes, isCancelled) ==
  IF isCancelled THEN [h EXCEPT !.writes = {}]
  ELSE [backfillYes |-> IF yesRes.status = "fulfilled"
                        THEN toPricePoints(yesRes.value, run.yes) ELSE <<>>,
        backfillNo |-> IF noRes.status = "fulfilled"
                       THEN toPricePoints(noRes.value, run.no) ELSE <<>>,
        loading |-> FALSE,
        error |-> h.error,
        writes |-> {"backfillYes", "backfillNo", "loading"}]

\* Mutation: the cleanup does not set cancelled.
HistoryCleanupForgets(canc, e, prevMarket) == canc

\* The cleanup of effect instance e, which ran with the market prevMarket:
\* the effect returned one only when that market was not null.
HistoryCleanup(canc, e, prevMarket) ==
  IF prevMarket = None THEN canc ELSE [canc EXCEPT ![e] = TRUE]

\* The effect instance e for the market m, on st = [loading, error, fetches]:
\* nothing for a null market, else setLoading(true), setError(null) and the
\* two fetches, awaited together.
HistoryEffect(st, e, m) ==
  IF m = None THEN st
  ELSE [loading |-> TRUE, error |-> None,
        fetches |-> Append(st.fetches, [e |-> e, yes |-> m[1].yes, no |-> m[1].no])]

\* Why a fetch brought no history of the upstream: the request to the route
\* failed, the upstream failed, or the body did not match the schema.
Cause(netOk, up) ==
  IF ~netOk THEN "network"
  ELSE IF ~up.ok THEN "upstream"
  ELSE IF up.body.shape = "malformed" THEN "schema"
  ELSE "none"

(***************************************************************************)
(* SpecHist: one mounted useMarketHistory hook.                            *)
(***************************************************************************)
MarketProps == {None} \cup {Some(m) : m \in Markets}

HistInit ==
  /\ HistIdle
  /\ TSIdle
  /\ BCIdle
  /\ ViewIdle
  /\ HookIdle
  /\ AppIdle
  /\ ExtIdle

\* The effects of a commit with a changed market or timeframe: the cleanup
\* of the previous effect instance, then the new effect instance.
CommitHistory(m, newTf) ==
  LET e == histEffect + 1
      st == HistoryEffect([loading |-> loading, error |-> error,
                           fetches |-> fetches], e, m)
  IN /\ market' = m
     /\ tf' = newTf
     /\ histEffect' = e
     /\ cancelled' = HistoryCleanup(cancelled, histEffect, market)
     /\ loading' = st.loading
     /\ error' = st.error
     /\ fetches' = st.fetches
     /\ histLast' = [op |-> "commit"]

\* A commit with a changed market or timeframe.
HistCommit ==
  /\ histEffect < MaxCommits
  /\ \E m \in MarketProps, newTf \in Timeframes :
       /\ <<m, newTf>> # <<market, tf>>
       /\ CommitHistory(m, newTf)
  /\ UNCHANGED <<backfillYes, backfillNo>>
  /\ UNCHANGED <<series, backfill, nowTs, delaySec, view>>
  /\ UNCHANGED <<tsVars, extVars, bcVars, hookVars, appVars>>

\* Both fetches of one suspended run have settled, with the pair of answers
\* (YES, NO) drawn from P: the run resumes and runs to its end.
SettleFrom(P) ==
  \E i \in 1..Len(fetches) : \E ans \in P :
      LET run == fetches[i]
          ansYes == ans[1]
          ansNo == ans[2]
          yesRes == fetchHistory(ansYes.netOk, RouteGET(ansYes.up))
          noRes == fetchHistory(ansNo.netOk, RouteGET(ansNo.up))
          h == SettleBody([backfillYes |-> backfillYes, backfillNo |-> backfillNo,
                           loading |-> loading, error |-> error, writes |-> {}],
                          run, yesRes, noRes, cancelled[run.e])
      IN /\ backfillYes' = h.backfillYes
         /\ backfillNo' = h.backfillNo
         /\ loading' = h.loading
         /\ error' = h.error
         /\ fetches' = RemoveAt(fetches, i)
         /\ histLast' = [op |-> "settle", run |-> run, yes |-> yesRes, no |-> noRes,
                         causeYes |-> Cause(ansYes.netOk, ansYes.up),
                         causeNo |-> Cause(ansNo.netOk, ansNo.up),
                         sentYes |-> ansYes.up.body.pts,
                         sentNo |-> ansNo.up.body.pts,
                         writes |-> h.writes]
         /\ UNCHANGED <<market, histEffect, cancelled>>

HistSettle ==
  /\ SettleFrom(Answers \X Answers)
  /\ UNCHANGED <<tsVars, extVars, bcVars, viewVars, hookVars, appVars>>

HistNext == HistCommit \/ HistSettle

SpecHist == HistInit /\ [][HistNext]_vars

(***************************************************************************)
(* Claims on useMarketHistory, checked under SpecHist.                     *)
(***************************************************************************)

\* The run that settled last was started by an effect instance other than
\* the one of the last commit: the market or the timeframe changed since.
SettledStale == histLast.op = "settle" /\ histLast.run.e # histEffect
SettledCurrent == histLast.op = "settle" /\ histLast.run.e = histEffect

\* C12 (backfill cancellation): a history fetch started for one (market,
\* timeframe) that resolves or rejects after the market or the timeframe has
\* changed is discarded: it calls none of the setters of backfillYes,
\* backfillNo, loading and error.
C12_BackfillCancellation ==
  SettledStale => histLast.writes = {}

\* A superseded run brings points for both outcomes while the fetch of the
\* market that replaced it is pending: the state keeps showing no backfill
\* and loading.
C12_Witness ==
  /\ SettledStale
  /\ histLast.yes.status = "fulfilled"
  /\ histLast.yes.value # <<>>
  /\ histLast.no.value # <<>>
  /\ market # None
  /\ market[1].yes # histLast.run.yes
  /\ fetches # <<>>
  /\ backfillYes = <<>>
  /\ loading

\* A superseded run whose fetches both failed.
C12_WitnessRejected ==
  /\ SettledStale
  /\ histLast.yes.status = "rejected"
  /\ histLast.no.status = "rejected"

\* C17 (history failure degrades to empty backfill): when the run of the
\* current market settles, an outcome whose fetch failed (request error,
\* upstream error, or a body that does not match the schema) has the empty
\* backfill, an outcome whose fetch succeeded has its points whatever
\* happened to the other, error stays null and loading is cleared; and the
\* route answers an upstream failure with an empty history.
C17_HistoryFailure ==
  /\ \A up \in Upstream : ~up.ok => RouteGET(up) = EmptyHistory
  /\ SettledCurrent =>
       /\ histLast.causeYes # "none" => backfillYes = <<>>
       /\ histLast.causeNo # "none" => backfillNo = <<>>
       /\ histLast.causeYes = "none" =>
            backfillYes = toPricePoints(histLast.sentYes, histLast.run.yes)
       /\ histLast.causeNo = "none" =>
            backfillNo = toPricePoints(histLast.sentNo, histLast.run.no)
       /\ histLast.causeYes = "upstream" => histLast.yes = Fulfilled(<<>>)
       /\ histLast.causeNo = "upstream" => histLast.no = Fulfilled(<<>>)
       /\ error = None
       /\ ~loading

\* The YES body does not match the schema while the NO fetch brings points.
C17_Witness ==
  /\ SettledCurrent
  /\ histLast.causeYes = "schema"
  /\ histLast.causeNo = "none"
  /\ backfillYes = <<>>
  /\ backfillNo # <<>>

\* The request for NO fails while the upstream fails for YES.
C17_WitnessNetwork ==
  /\ SettledCurrent
  /\ histLast.causeNo = "network"
  /\ histLast.causeYes = "upstream"
  /\ backfillYes = <<>>
  /\ backfillNo = <<>>

(***************************************************************************)
(* SpecApp: HomeContent (features/home/HomeContent.tsx) with both hooks    *)
(* mounted.  A step is a state change with the render it causes and the    *)
(* effects of that commit, or a callback of one of the hooks.  The         *)
(* variable page holds the output of the render of the last step, NoPage   *)
(* when that step did not render.  useMemo in useCandles is modelled as    *)
(* recomputation.                                                          *)
(***************************************************************************)
\* The inputs of SpecApp: a quote with a bid or with nothing, and a history
\* request that fails or brings points.
AppQuotes == {q \in Quotes : q.bestAsk = None /\ q.bestBid # Some("abc")}
AppAnswers ==
  LET some == {a \in Answers : a.netOk /\ a.up.ok /\ a.up.body.shape = "object"
                                        /\ Len(a.up.body.pts) = 1}
      fail == {a \in Answers : ~a.netOk}
  IN (some \X some) \cup (fail \X fail)
AppDelaySecs == {0, 60}

\* The market the user resolves next: the two markets in turn.
NextMarket(m) ==
  IF m = None \/ m = Some([yes |-> "C", no |-> "D"])
  THEN [yes |-> "A", no |-> "B"]
  ELSE [yes |-> "C", no |-> "D"]

\* pov === "YES" ? yes : no
Active(p, yes, no) == IF p = "YES" THEN yes ELSE no

\* Mutation: nothing is drawn while the history is loading.
RenderWhenLoaded(why, mkt, ser, bf, now, busy) ==
  IF busy
  THEN [op |-> "render", why |-> why, market |-> mkt, series |-> ser, backfill |-> bf,
        candles |-> <<>>, readout |-> NoReadout]
  ELSE [op |-> "render", why |-> why, market |-> mkt, series |-> ser, backfill |-> bf,
        candles |-> useCandles(ser, bf, now, DelayMs, tf),
        readout |-> BigPercent(ser, now, DelayMs)]

\* One render of HomeContent with the market mkt, the active series ser as
\* useMarketWS returned it, the active backfill bf and nowTs = now: the
\* candles handed to Chart and the readout of BigPercent.  busy is the
\* loading state of useMarketHistory, which HomeContent does not read; why
\* is history: the state change that caused the render.
Render(why, mkt, ser, bf, now, busy) ==
  [op |-> "render", why |-> why, market |-> mkt, series |-> ser, backfill |-> bf,
   candles |-> useCandles(ser, bf, now, DelayMs, tf),
   readout |-> BigPercent(ser, now, DelayMs)]

AppInit ==
  /\ HookIdle
  /\ HistIdle
  /\ AppIdle
  /\ ExtIdle
  /\ TSIdle
  /\ BCIdle
  /\ series = <<>>
  /\ backfill = <<>>
  /\ nowTs = 0
  /\ delaySec \in AppDelaySecs
  /\ tf = 1
  /\ view = [op |-> "none", candles |-> <<>>, readout |-> NoReadout]

\* onResolved: setMarket(m).  The render of that commit reads the refs and
\* the backfill state as they are, then the effects of both hooks run.
AppSetMarket ==
  /\ histEffect < MaxCommits
  /\ \E m \in {NextMarket(market)} :
       /\ page' = Render("market", Some(m), Active(pov, seriesYesRef, seriesNoRef),
                         Active(pov, backfillYes, backfillNo), nowTs, loading)
       /\ CommitTokens(<<Some(m.yes), Some(m.no)>>)
       /\ CommitHistory(Some(m), tf)
  /\ UNCHANGED <<inFlight, clock, ticks, backfillYes, backfillNo, pov>>
  /\ UNCHANGED <<series, backfill, nowTs, delaySec, view, tsVars, extVars, bcVars>>

\* The 250 ms interval: setNowTs(Date.now()) and the render it causes.
AppTick ==
  /\ nowTs' = DateNow
  /\ page' = Render("tick", market, Active(pov, seriesYesRef, seriesNoRef),
                    Active(pov, backfillYes, backfillNo), DateNow, loading)
  /\ UNCHANGED <<series, backfill, delaySec, tf, view, pov>>
  /\ UNCHANGED <<tsVars, extVars, bcVars, hookVars, histVars>>

\* setPov and the render it causes.
AppSetPov ==
  /\ \E p \in {"YES", "NO"} :
       /\ p # pov
       /\ pov' = p
       /\ page' = Render("pov", market, Active(p, seriesYesRef, seriesNoRef),
                         Active(p, backfillYes, backfillNo), nowTs, loading)
  /\ UNCHANGED <<tsVars, extVars, bcVars, viewVars, hookVars, histVars>>

\* A history run settles; when it set state, HomeContent renders again.
AppHistSettle ==
  /\ SettleFrom(AppAnswers)
  /\ page' = IF histLast'.writes = {} THEN NoPage
             ELSE Render("history", market, Active(pov, seriesYesRef, seriesNoRef),
                         Active(pov, backfillYes', backfillNo'), nowTs, loading')
  /\ UNCHANGED <<tsVars, extVars, bcVars, viewVars, hookVars, pov>>

\* What a callback of useMarketWS leaves alone in SpecApp; it causes no render.
notHookApp == <<tsVars, extVars, bcVars, viewVars, histVars, pov>>

AppTimerFire == ticks < AppMaxTicks /\ TimerFireIn(notHookApp) /\ page' = NoPage
AppPollResolve == PollResolveIn(AppQuotes, notHookApp) /\ page' = NoPage
AppPollReject == PollRejectIn(notHookApp) /\ page' = NoPage
AppClockAdvance == ClockAdvanceIn(notHookApp) /\ page' = NoPage

AppNext ==
  \/ AppSetMarket
  \/ AppTick
  \/ AppSetPov
  \/ AppHistSettle
  \/ AppTimerFire
  \/ AppPollResolve
  \/ AppPollReject
  \/ AppClockAdvance

SpecApp == AppInit /\ [][AppNext]_vars

(***************************************************************************)
(* Claims on HomeContent, checked under SpecApp.                           *)
(***************************************************************************)

\* The token ids of a market (none for null).
TokensOf(mkt) == IF mkt = None THEN {} ELSE {mkt[1].yes, mkt[1].no}

\* The cutoff of the last render.
PageCutoff == nowTs - DelayMs

\* The points the candles of the last render were built from.
Drawn == Range(FilterAtOrBefore(page.backfill \o page.series, PageCutoff))

\* C11 (reset on market change, view): in no render does a point obtained
\* for another market than the one being rendered (from its live series or
\* its backfill) feed the candle sequence or the point estimate; this
\* includes the renders between a switch and the settling of the new
\* market's history fetch.
C11_NoStalePoint ==
  page.op = "render" =>
    /\ \A pt \in Drawn : pt.src \in TokensOf(page.market)
    /\ page.readout.pt # None => page.readout.pt[1].src \in TokensOf(page.market)

\* A render caused by the nowTs interval, after the switch to another market
\* and before that market's history fetch has settled, whose candles are
\* built from the backfill of the market before.
C11_Witness ==
  /\ page.op = "render"
  /\ page.why = "tick"
  /\ \E i \in 1..Len(fetches) : fetches[i].e = histEffect
  /\ page.series = <<>>
  /\ page.candles # <<>>
  /\ \E pt \in Drawn : pt.src \notin TokensOf(page.market)

\* The points of the live series handed to the last render that are at or
\* before its cutoff.
VisibleOnPage == {i \in 1..Len(page.series) : page.series[i].t <= PageCutoff}

\* The candle sequence has a candle over the bucket of pt whose range holds
\* pt.p.
InCandles(pt, cs) ==
  \E k \in 1..Len(cs) :
    /\ cs[k].t = BucketStart(pt.t, tfToMs(tf))
    /\ cs[k].low <= pt.p
    /\ pt.p <= cs[k].high

\* C18 (independence of the live path): whatever the state of the backfill
\* fetch (pending, failed, superseded or done), a tick that derives a usable
\* probability pushes it; a render that follows reads the series the tick
\* pushed to; and every point of the rendered series at or before
\* nowTs - delayMs lies in a candle of the delayed sequence and is available
\* to the point estimate.
C18_LivePathIndependent ==
  /\ TickDone =>
       /\ ~Unusable(hookLast.probYes) => hookLast.pushedYes
       /\ ~Unusable(hookLast.probNo) => hookLast.pushedNo
  /\ (page.op = "render" /\ page.why # "market") =>
       page.series = Active(pov, seriesYesRef, seriesNoRef)
  /\ page.op = "render" =>
       \A i \in VisibleOnPage :
         /\ InCandles(page.series[i], page.candles)
         /\ page.readout.pt # None
         /\ page.readout.pt[1].t >= page.series[i].t

\* A render while the history fetch of the market is pending: the backfill
\* is empty and the candles and the readout come from a live point.
C18_Witness ==
  /\ page.op = "render"
  /\ page.why = "tick"
  /\ loading
  /\ \E i \in 1..Len(fetches) : fetches[i].e = histEffect
  /\ page.backfill = <<>>
  /\ VisibleOnPage # {}
  /\ page.candles # <<>>
  /\ page.readout.pt # None

\* A render after the history fetch of the market failed.
C18_WitnessFailed ==
  /\ page.op = "render"
  /\ SettledCurrent
  /\ histLast.causeYes = "network"
  /\ page.backfill = <<>>
  /\ VisibleOnPage # {}
  /\ page.candles # <<>>

\* A tick pushes to both series while the history fetch is pending.
C18_WitnessPush ==
  /\ TickDone
  /\ hookLast.pushedYes
  /\ hookLast.pushedNo
  /\ \E i \in 1..Len(fetches) : fetches[i].e = histEffect

(***************************************************************************)
(* SpecCtl: the delay state of HomeContent, the Delay input of             *)
(* MarketControls and the two effects that tie the state to the query      *)
(* string.  The page is mounted, a market is resolved and TV mode is off,  *)
(* so the controls are rendered; the tf, pov and mode parameters are in    *)
(* step with their state and left out of the query string.                 *)
(***************************************************************************)
\* The decimal strings of the model and the numbers they denote.
DelayStrings == {"0", "30", "45", "600", "601", "700", "-1", "-5"}

DecimalValue(str) ==
  CASE str = "0" -> 0
    [] str = "30" -> 30
    [] str = "45" -> 45
    [] str = "600" -> 600
    [] str = "601" -> 601
    [] str = "700" -> 700
    [] str = "-1" -> -1
    [] str = "-5" -> -5

\* Number.parseInt(str): NaN for what does not start with a number.
ParseInt(str) == IF str \in DelayStrings THEN Num(DecimalValue(str)) ELSE NaN

\* Number(e.target.value) of a number input: the empty value gives 0.
NumberOf(str) == IF str = "" THEN 0 ELSE DecimalValue(str)

\* String(n).
StringOf(n) == CHOOSE str \in DelayStrings : DecimalValue(str) = n

\* What the user can leave in the Delay input: min and max of the element
\* restrict its stepping and its validity, not its value.
InputValues == {"", "0", "45", "600", "601", "-5"}

\* The text of the URL input.
UrlTexts == {"", "u"}

\* The query strings a navigation can bring.
QueryStrings ==
  [url : {None, Some("u")},
   delay : {None, Some("45"), Some("700"), Some("-1"), Some("abc")}]

\* useState(30).
InitialDelaySec == 30

\* The effect "Sync state from URL params", on st = [marketUrl, delaySec]:
\* the url parameter replaces marketUrl, a delay that parses is clamped to
\* 0..600 and replaces delaySec.
SyncEffect(qs, st) ==
  LET nextUrl == IF qs.url # None THEN qs.url[1] ELSE ""
      d == IF qs.delay # None THEN ParseInt(qs.delay[1]) ELSE NaN
  IN [marketUrl |-> nextUrl,
      delaySec |-> IF ~d.nan THEN Max2(0, Min2(600, d.v)) ELSE st.delaySec]

\* The effect "Push state to URL params" of a commit, after the cleanup of
\* the one before: the timeout it sets, if any, with what its callback
\* closes over.
PushEffect(qs, mUrl, dSec) ==
  LET prevUrl == IF qs.url # None THEN qs.url[1] ELSE ""
      next == [url |-> IF mUrl # "" THEN Some(mUrl) ELSE None,
               delay |-> Some(StringOf(dSec))]
  IN IF next # qs
     THEN Some([next |-> next, shouldWrite |-> mUrl # "" \/ prevUrl # ""])
     ELSE None

\* The commit that follows a change of the query string to qs: the sync
\* effect runs, and the push effect of the last render it causes.
CommitQS(qs, why, wrote) ==
  LET st == SyncEffect(qs, [marketUrl |-> marketUrl, delaySec |-> delaySec])
  IN /\ currentQS' = qs
     /\ marketUrl' = st.marketUrl
     /\ delaySec' = st.delaySec
     /\ urlTimer' = PushEffect(qs, st.marketUrl, st.delaySec)
     /\ ctlLast' = [op |-> why, wrote |-> wrote]

\* What SpecCtl leaves alone.
notCtl == <<series, backfill, nowTs, tf, view, tsVars, bcVars, hookVars, histVars,
            appVars, midVars, resVars, wsVars, wakeVars>>

\* The first commit with mounted = true, for the query string of the
\* address the page was opened with.
CtlInit ==
  /\ \E qs \in QueryStrings :
       LET st == SyncEffect(qs, [marketUrl |-> "", delaySec |-> InitialDelaySec])
       IN /\ currentQS = qs
          /\ marketUrl = st.marketUrl
          /\ delaySec = st.delaySec
          /\ urlTimer = PushEffect(qs, st.marketUrl, st.delaySec)
  /\ ctlLast = [op |-> "mount", wrote |-> FALSE]
  /\ series = <<>>
  /\ backfill = <<>>
  /\ nowTs = 0
  /\ tf = 1
  /\ view = [op |-> "none", candles |-> <<>>, readout |-> NoReadout]
  /\ TSIdle
  /\ BCIdle
  /\ HookIdle
  /\ HistIdle
  /\ AppIdle
  /\ MidIdle
  /\ WakeIdle
  /\ ResIdle
  /\ WsIdle

\* onChange of the Delay input: onDelayChange(Number(e.target.value)), which
\* is setDelaySec; the push effect runs again.
CtlDelayChange ==
  /\ \E v \in InputValues :
       /\ NumberOf(v) # delaySec
       /\ delaySec' = NumberOf(v)
       /\ urlTimer' = PushEffect(currentQS, marketUrl, NumberOf(v))
  /\ ctlLast' = [op |-> "delay", wrote |-> FALSE]
  /\ UNCHANGED <<currentQS, marketUrl, notCtl>>

\* onChange of the URL input: setMarketUrl; the push effect runs again.
CtlUrlChange ==
  /\ \E u \in UrlTexts :
       /\ u # marketUrl
       /\ marketUrl' = u
       /\ urlTimer' = PushEffect(currentQS, u, delaySec)
  /\ ctlLast' = [op |-> "url", wrote |-> FALSE]
  /\ UNCHANGED <<currentQS, delaySec, notCtl>>

\* The address changes from outside (a link, the address bar).
CtlNavigate ==
  /\ \E qs \in QueryStrings :
       /\ qs # currentQS
       /\ CommitQS(qs, "navigate", FALSE)
  /\ UNCHANGED notCtl

\* The timeout of the push effect fires: router.replace when shouldWrite,
\* and the commit for the new query string.
CtlTimerFire ==
  /\ urlTimer # None
  /\ IF urlTimer[1].shouldWrite
     THEN CommitQS(urlTimer[1].next, "timer", TRUE)
     ELSE /\ urlTimer' = None
          /\ ctlLast' = [op |-> "timer", wrote |-> FALSE]
          /\ UNCHANGED <<currentQS, marketUrl, delaySec>>
  /\ UNCHANGED notCtl

CtlNext == CtlDelayChange \/ CtlUrlChange \/ CtlNavigate \/ CtlTimerFire

SpecCtl == CtlInit /\ [][CtlNext]_vars

\* C22 (delay range): in every reachable state delaySec is within 0..600,
\* and so delayMs within 0..600000.
C22_DelayRange == delaySec \in 0..600

\* The delay sits outside 0..600 with nothing pending that would bring it
\* back: the timeout has fired and did not write the address.
C22_Witness ==
  /\ delaySec \notin 0..600
  /\ urlTimer = None
  /\ ctlLast = [op |-> "timer", wrote |-> FALSE]

\* What the query string alone can do: after a synchronisation that parsed
\* a delay, delaySec is that delay clamped to 0..600.
SyncClamps ==
  (ctlLast.op \in {"mount", "navigate"} /\ currentQS.delay # None
     /\ ~ParseInt(currentQS.delay[1]).nan) =>
    /\ delaySec \in 0..600
    /\ delaySec = Max2(0, Min2(600, ParseInt(currentQS.delay[1]).v))

(***************************************************************************)
(* SpecRes: useResolveMarket as HomeContent mounts it (enabled, the        *)
(* default debounceMs, onResolved = setMarket).  HomeContent passes a new  *)
(* onResolved with every render, so resolveNow changes with every render   *)
(* and the debounce effect runs again after every commit.                  *)
(***************************************************************************)
MaxRequests == 2      \* resolveNow calls per run of SpecRes

\* The texts of the URL input.
UrlInputs == {"", "text", "u1", "u1 ", "u2"}

\* String.prototype.trim on them.
Trim(str) == IF str = "u1 " THEN "u1" ELSE str

\* isLikelyUrl: parses as a URL with protocol http: or https:.
isLikelyUrl(u) == u \in {"u1", "u2"}

\* What /api/resolve answers for a URL when it succeeds.
MarketOf(u) ==
  IF u = "u1" THEN [yes |-> "A", no |-> "B"] ELSE [yes |-> "C", no |-> "D"]

\* The debounce effect of a commit, after the cleanup of the one before:
\* the timeout it sets, if any, with the target its callback closes over.
DebounceEffect(mUrl, lastResolved) ==
  LET target == Trim(mUrl)
  IN IF target = "" THEN None
     ELSE IF ~isLikelyUrl(target) THEN None
     ELSE IF target = lastResolved THEN None
     ELSE Some([target |-> target, marketUrl |-> mUrl])

\* resolveNow after its await resolved: onResolved(m, target), which is
\* setMarket(m), then lastResolvedRef.current = target.
Resolved(req) ==
  [market |-> Some(MarketOf(req.target)), lastResolvedRef |-> req.target]

\* What SpecRes leaves alone.
notRes == <<backfillYes, backfillNo, loading, error, histEffect, cancelled, fetches,
            histLast, currentQS, urlTimer, ctlLast, tsVars, bcVars, viewVars, hookVars,
            appVars, midVars, wsVars, wakeVars>>

\* Mounted with an empty URL input and nothing resolved.
ResInit ==
  /\ marketUrl = ""
  /\ market = None
  /\ resolving = FALSE
  /\ resolveError = None
  /\ lastResolvedRef = ""
  /\ debounce = None
  /\ requests = <<>>
  /\ resLast = [op |-> "mount", seq |-> 0, started |-> 0, latest |-> "",
                latestState |-> "none", before |-> None, ticks |-> 0]
  /\ backfillYes = <<>>
  /\ backfillNo = <<>>
  /\ loading = FALSE
  /\ error = None
  /\ histEffect = 0
  /\ cancelled = [e \in 0..MaxCommits |-> FALSE]
  /\ fetches = <<>>
  /\ histLast = [op |-> "mount"]
  /\ currentQS = [url |-> None, delay |-> None]
  /\ urlTimer = None
  /\ ctlLast = [op |-> "none"]
  /\ TSIdle
  /\ BCIdle
  /\ ViewIdle
  /\ HookIdle
  /\ AppIdle
  /\ MidIdle
  /\ WakeIdle
  /\ WsIdle

\* onChange of the URL input: setMarketUrl; the debounce effect runs again.
ResUrlChangeTo(U) ==
  /\ \E u \in U :
       /\ u # marketUrl
       /\ marketUrl' = u
       /\ debounce' = DebounceEffect(u, lastResolvedRef)
  /\ resLast' = [resLast EXCEPT !.op = "url", !.before = market]
  /\ UNCHANGED <<market, resolving, resolveError, lastResolvedRef, requests, notRes>>

ResUrlChange == ResUrlChangeTo(UrlInputs)

\* The debounce timeout fires: resolveNow(target) runs up to its await, and
\* the commit of its state updates runs the effect again.
ResDebounceFire ==
  /\ debounce # None
  /\ resLast.started < MaxRequests
  /\ LET target == debounce[1].target
     IN IF Trim(debounce[1].marketUrl) = target /\ target # lastResolvedRef
        THEN /\ resolveError' = None
             /\ resolving' = TRUE
             /\ requests' = Append(requests, [target |-> target,
                                              seq |-> resLast.started + 1])
             /\ resLast' = [op |-> "request", seq |-> resLast.started + 1,
                            started |-> resLast.started + 1, latest |-> target,
                            latestState |-> "pending", before |-> market,
                            ticks |-> resLast.ticks]
        ELSE /\ UNCHANGED <<resolveError, resolving, requests>>
             /\ resLast' = [resLast EXCEPT !.op = "timer", !.before = market]
  /\ debounce' = DebounceEffect(marketUrl, lastResolvedRef)
  /\ UNCHANGED <<marketUrl, market, lastResolvedRef, notRes>>

\* svcResolveMarket of the suspended resolveNow i resolves: onResolved, the
\* ref, finally setResolving(false); the commit runs the effect again.
ResResolvedAt(i) ==
  LET req == requests[i]
      out == Resolved(req)
  IN /\ market' = out.market
     /\ lastResolvedRef' = out.lastResolvedRef
     /\ resolving' = FALSE
     /\ requests' = RemoveAt(requests, i)
     /\ debounce' = DebounceEffect(marketUrl, out.lastResolvedRef)
     /\ resLast' = [resLast EXCEPT !.op = "resolved", !.seq = req.seq,
                      !.latestState = IF req.seq = resLast.started THEN "ok" ELSE @,
                      !.before = market]
     /\ UNCHANGED <<marketUrl, resolveError>>

ResResolved ==
  \E i \in 1..Len(requests) : ResResolvedAt(i) /\ UNCHANGED notRes

\* Mutation: a failed resolution also drops the active market.
ResolveFailedClearsMarket(st, message) ==
  [st EXCEPT !.error = Some(message), !.resolving = FALSE, !.market = None]

\* The catch and finally branches of resolveNow on
\* st = [market, lastResolvedRef, error, resolving]: setError(message),
\* setResolving(false) and nothing else.
ResolveFailed(st, message) ==
  [st EXCEPT !.error = Some(message), !.resolving = FALSE]

\* svcResolveMarket of one suspended resolveNow rejects: setError(message),
\* finally setResolving(false); the commit runs the effect again.  The
\* market prop of the other hooks is the same, so none of their effects runs.
ResRejected ==
  \E i \in 1..Len(requests) :
    LET req == requests[i]
        out == ResolveFailed([market |-> market, lastResolvedRef |-> lastResolvedRef,
                              error |-> resolveError, resolving |-> resolving],
                             "Failed to resolve market")
    IN /\ resolveError' = out.error
       /\ market' = out.market
       /\ lastResolvedRef' = out.lastResolvedRef
       /\ resolving' = out.resolving
       /\ requests' = RemoveAt(requests, i)
       /\ debounce' = DebounceEffect(marketUrl, out.lastResolvedRef)
       /\ resLast' = [resLast EXCEPT !.op = "rejected", !.seq = req.seq,
                        !.latestState = IF req.seq = resLast.started THEN "failed" ELSE @,
                        !.before = market, !.ticks = ticks]
       /\ UNCHANGED <<marketUrl, notRes>>

ResNext == ResUrlChange \/ ResDebounceFire \/ ResResolved \/ ResRejected

SpecRes == ResInit /\ [][ResNext]_vars

\* C30 (resolution race): a result of a request that arrives after a newer
\* request has been started is dropped (the active market stays what it
\* was), and once every request has settled, the last one with success, the
\* active market is the one resolved for the most recently requested URL.
C30_ResolutionRace ==
  /\ (resLast.op = "resolved" /\ resLast.seq < resLast.started) =>
       market = resLast.before
  /\ (requests = <<>> /\ resLast.latestState = "ok") =>
       market = Some(MarketOf(resLast.latest))

\* Every request has settled, the one started last with success, and the
\* active market is the one of the request started before it.
C30_Witness ==
  /\ requests = <<>>
  /\ resLast.op = "resolved"
  /\ resLast.latestState = "ok"
  /\ resLast.seq < resLast.started
  /\ Trim(marketUrl) = resLast.latest
  /\ market # None
  /\ market # Some(MarketOf(resLast.latest))

\* C37 (resolving flag): in every state in which a request started by
\* resolveNow is in flight, resolving is true; it is false only when no
\* request is in flight.
C37_ResolvingWhileInFlight ==
  requests # <<>> => resolving

\* What the flag does: it becomes true when a request starts and false when
\* any request settles, and changes at no other step; with no request in
\* flight it is false.
ResolvingUntilSettled ==
  [][/\ Len(requests') > Len(requests) => resolving'
     /\ Len(requests') < Len(requests) => ~resolving'
     /\ Len(requests') = Len(requests) => resolving' = resolving
     /\ requests' = <<>> => ~resolving'
  ]_vars

\* Two requests overlapped and the earlier one has settled: resolving is
\* false while the later one is still in flight.
C37_Witness ==
  /\ Len(requests) = 1
  /\ requests[1].seq = 2
  /\ resLast.op \in {"resolved", "rejected"}
  /\ resLast.seq = 1
  /\ ~resolving

(***************************************************************************)
(* SpecPipe: useResolveMarket feeding useMarketWS, as HomeContent joins    *)
(* them: the market set by onResolved gives the hook its token props.      *)
(***************************************************************************)
\* What a resolution that sets the market leaves alone: all but the two hooks.
notPipe == <<backfillYes, backfillNo, loading, error, histEffect, cancelled, fetches,
             histLast, currentQS, urlTimer, ctlLast, tsVars, bcVars, viewVars,
             appVars, midVars, wsVars, wakeVars>>

\* A resolution succeeds: setMarket(m); when the token props of useMarketWS
\* changed with it, the commit runs the hook's effects.
PipeResolved ==
  \E i \in 1..Len(requests) :
    LET m == MarketOf(requests[i].target)
        props == <<Some(m.yes), Some(m.no)>>
    IN /\ ResResolvedAt(i)
       /\ IF props # <<yesTokenId, noTokenId>>
          THEN CommitTokens(props) /\ UNCHANGED <<inFlight, clock, ticks>>
          ELSE UNCHANGED hookVars
       /\ UNCHANGED notPipe

\* The URLs typed in SpecPipe: those of the two markets.
PipeUrls == {"u1", "u2"}

PipeUrlChange == ResUrlChangeTo(PipeUrls)
PipeTimerFire == ticks < AppMaxTicks /\ TimerFireIn(notHook)
PipePollResolve == PollResolveIn(AppQuotes, notHook)

PipeNext ==
  \/ PipeUrlChange
  \/ ResDebounceFire
  \/ PipeResolved
  \/ ResRejected
  \/ PipeTimerFire
  \/ PipePollResolve
  \/ PollReject

SpecPipe == ResInit /\ [][PipeNext]_vars

\* The step is the failure of a resolution.
ResolutionFails == resLast'.op = "rejected" /\ requests' # requests

\* C32 (resolution failure): the step in which a resolution fails sets the
\* error message and leaves the active market, the last-resolved URL, both
\* series and the TOB map as they were; the hook keeps its token props, its
\* timer and its suspended callbacks, so an idle pipeline stays idle and an
\* active one keeps polling.
C32_ResolutionFailure ==
  [][ResolutionFails =>
       /\ resolveError' # None
       /\ market' = market
       /\ lastResolvedRef' = lastResolvedRef
       /\ seriesYesRef' = seriesYesRef
       /\ seriesNoRef' = seriesNoRef
       /\ tobRef' = tobRef
       /\ <<yesTokenId', noTokenId'>> = <<yesTokenId, noTokenId>>
       /\ pollTimer' = pollTimer
       /\ intervals' = intervals
       /\ inFlight' = inFlight
  ]_vars

\* The resolution of another URL failed while market A/B was active, and a
\* callback started after the failure has pushed a point to both series of
\* A/B.
C32_Witness ==
  /\ resLast.op = "rejected"
  /\ resLast.ticks = 0
  /\ ticks = 1
  /\ inFlight = <<>>
  /\ resolveError # None
  /\ market = Some(MarketOf("u1"))
  /\ lastResolvedRef = "u1"
  /\ resLast.latest = "u2"
  /\ hookLast.op = "poll"
  /\ hookLast.pushedYes
  /\ hookLast.pushedNo
  /\ pollTimer = Some(MarketOf("u1"))

\* The first resolution failed: the error is shown, no market is active, no
\* timer runs and the series and the TOB map are empty.
C32_WitnessIdle ==
  /\ resLast.op = "rejected"
  /\ resolveError # None
  /\ market = None
  /\ lastResolvedRef = ""
  /\ pollTimer = None
  /\ seriesYesRef = <<>>
  /\ seriesNoRef = <<>>
  /\ TobFields(tobRef) = {}

(***************************************************************************)
(* SpecFeed: the two transports side by side.  One hook is fed by          *)
(* WebSocket messages (ws.onmessage), the other by the interval callback   *)
(* of the poll; both are mounted for the same market and every update of   *)
(* the best bids and asks reaches both at the same instant: the poll as    *)
(* the pair of /api/price responses of one callback, the socket as one     *)
(* message, or as one message per token.                                   *)
(***************************************************************************)
MaxUpdates == 2       \* updates delivered per run of SpecFeed

\* The market both hooks are mounted for.
FeedMarket == [yes |-> "A", no |-> "B"]

\* A WebSocket message, JSON.parse(e.data).  bids and asks are price levels
\* [price]; price_changes are [asset_id, best_bid, best_ask]; price is None
\* (absent) or Some(string).
Message(type, id, bids, asks, changes, price) ==
  [event_type |-> type, asset_id |-> id, bids |-> bids, asks |-> asks,
   price_changes |-> changes, price |-> price]

\* The writes of the price_change branch, from the k-th change on.
RECURSIVE PriceChanges(_, _, _)
PriceChanges(w, changes, k) ==
  IF k > Len(changes) THEN w
  ELSE LET ch == changes[k]
           w1 == WriteField(w, ch.asset_id, "bestBid", ch.best_bid)
           w2 == WriteField(w1, ch.asset_id, "bestAsk", ch.best_ask)
       IN PriceChanges(w2, changes, k + 1)

\* The TOB writes of ws.onmessage, by event_type; any other message writes
\* nothing.
MessageWrites(tob, msg) ==
  LET w0 == [tob |-> tob, thrown |-> FALSE]
  IN IF msg.event_type = "book"
     THEN LET w1 == WriteField(w0, msg.asset_id, "bestBid",
                               IF Len(msg.bids) > 0 THEN Some(msg.bids[1].price) ELSE None)
          IN WriteField(w1, msg.asset_id, "bestAsk",
                        IF Len(msg.asks) > 0 THEN Some(msg.asks[1].price) ELSE None)
     ELSE IF msg.event_type = "price_change"
     THEN PriceChanges(w0, msg.price_changes, 1)
     ELSE IF msg.event_type = "last_trade_price"
     THEN WriteField(w0, msg.asset_id, "last", msg.price)
     ELSE w0

\* ws.onmessage: the writes of the message, tNow, the two probabilities and
\* the two pushes, inside try/catch.  st = [tob, yes, no] are the refs'
\* current values, c the tokens the handler closes over.
OnMessage(st, c, msg, tNow) ==
  LET w == MessageWrites(st.tob, msg)
  IN IF w.thrown
     THEN [tob |-> w.tob, yes |-> st.yes, no |-> st.no]
     ELSE LET probYes == computeBlendedProb(w.tob, c.yes, c.no)
              probNo == computeNoProb(w.tob, c.yes, c.no)
          IN [tob |-> w.tob,
              yes |-> PushProb(st.yes, probYes, tNow, c.yes),
              no |-> PushProb(st.no, probNo, tNow, c.no)]

\* An update of the best bids and asks of the two tokens: per token and
\* field, a new value or none.
Updates == [yes : Quotes, no : Quotes]

NoQuote == [bestBid |-> None, bestAsk |-> None]

\* One price level per given price.
Levels(price) == IF price = None THEN <<>> ELSE <<[price |-> price[1]]>>

Change(tok, q) == [asset_id |-> tok, best_bid |-> q.bestBid, best_ask |-> q.bestAsk]

\* The messages that carry the update u: a price_change with a change per
\* token, in either order and without the token that has nothing new, or a
\* book snapshot of the one token that has something new.
MessagesFor(u, c) ==
  LET y == Change(c.yes, u.yes)
      n == Change(c.no, u.no)
      pc(changes) == Message("price_change", "", <<>>, <<>>, changes, None)
      book(tok, q) == Message("book", tok, Levels(q.bestBid), Levels(q.bestAsk),
                              <<>>, None)
  IN {pc(<<y, n>>), pc(<<n, y>>)}
     \cup (IF u.no = NoQuote THEN {pc(<<y>>), book(c.yes, u.yes)} ELSE {})
     \cup (IF u.yes = NoQuote THEN {pc(<<n>>), book(c.no, u.no)} ELSE {})

\* The ways the socket delivers the update u: one of the messages above,
\* or, when both tokens have something new, one message per token in
\* either order.
DeliveriesFor(u, c) ==
  LET pc(tok, q) == Message("price_change", "", <<>>, <<>>, <<Change(tok, q)>>, None)
      book(tok, q) == Message("book", tok, Levels(q.bestBid), Levels(q.bestAsk),
                              <<>>, None)
      perToken(tok, q) == {pc(tok, q), book(tok, q)}
  IN {<<m>> : m \in MessagesFor(u, c)}
     \cup (IF u.yes # NoQuote /\ u.no # NoQuote
           THEN {<<a, b>> : a \in perToken(c.yes, u.yes), b \in perToken(c.no, u.no)}
                \cup {<<b, a>> : a \in perToken(c.yes, u.yes), b \in perToken(c.no, u.no)}
           ELSE {})

\* ws.onmessage for each message of a delivery, from the k-th on.
RECURSIVE OnMessages(_, _, _, _, _)
OnMessages(st, c, msgs, k, tNow) ==
  IF k > Len(msgs) THEN st
  ELSE OnMessages(OnMessage(st, c, msgs[k], tNow), c, msgs, k + 1, tNow)

\* What SpecFeed leaves alone.
notFeed == <<sockets, pollTimer, intervals, inFlight, ticks, hookLast, yesTokenId, noTokenId,
             tsVars, bcVars, viewVars, histVars, appVars, midVars, ctlVars, resVars,
             wakeVars>>

\* Both hooks after the effects of the commit for FeedMarket: fresh series
\* and an empty TOB entry per token.
FeedInit ==
  /\ yesTokenId = Some(FeedMarket.yes)
  /\ noTokenId = Some(FeedMarket.no)
  /\ tobRef = [EmptyTobMap EXCEPT ![FeedMarket.yes] = Some(EmptyTOB),
                                  ![FeedMarket.no] = Some(EmptyTOB)]
  /\ currentTOB = MemoAfterReset(useMemoTOB(EmptyTobMap))
  /\ seriesYesRef = NewTimeSeries
  /\ seriesNoRef = NewTimeSeries
  /\ pollTimer = Some(FeedMarket)
  /\ intervals = <<FeedMarket>>
  /\ inFlight = <<>>
  /\ clock = 0
  /\ ticks = 0
  /\ hookLast = [op |-> "mount", dropped |-> 0]
  /\ wsHook = [tob |-> [EmptyTobMap EXCEPT ![FeedMarket.yes] = Some(EmptyTOB),
                                           ![FeedMarket.no] = Some(EmptyTOB)],
               yes |-> NewTimeSeries, no |-> NewTimeSeries]
  /\ wsLast = [op |-> "mount", n |-> 0, event_type |-> "", messages |-> 0,
               split |-> 0]
  /\ sockets = <<>>
  /\ TSIdle
  /\ BCIdle
  /\ ViewIdle
  /\ HistIdle
  /\ AppIdle
  /\ MidIdle
  /\ WakeIdle
  /\ CtlIdle
  /\ ResIdle

\* An update arrives: the poll callback resumes with the two responses and
\* the socket delivers the message or messages carrying the same values.
\* wsLast counts the updates delivered and those that came split.
FeedDeliver ==
  /\ wsLast.n < MaxUpdates
  /\ \E u \in Updates : \E msgs \in DeliveriesFor(u, FeedMarket) :
       LET polled == PollBody([tob |-> tobRef, yes |-> seriesYesRef, no |-> seriesNoRef],
                              FeedMarket, u.yes, u.no, DateNow)
       IN /\ tobRef' = polled.tob
          /\ currentTOB' = MemoAfterWrite(currentTOB, polled.tob)
          /\ seriesYesRef' = polled.yes
          /\ seriesNoRef' = polled.no
          /\ wsHook' = OnMessages(wsHook, FeedMarket, msgs, 1, DateNow)
          /\ wsLast' = [op |-> "deliver", n |-> wsLast.n + 1,
                        event_type |-> msgs[1].event_type,
                        messages |-> Len(msgs),
                        split |-> wsLast.split + (IF Len(msgs) > 1 THEN 1 ELSE 0)]
  /\ UNCHANGED <<clock, notFeed>>

\* Wall-clock time passes.
FeedClockAdvance ==
  /\ clock < MaxClock
  /\ clock' = clock + 1
  /\ wsLast' = [wsLast EXCEPT !.op = "clock"]
  /\ UNCHANGED <<tobRef, currentTOB, seriesYesRef, seriesNoRef, wsHook, notFeed>>

FeedNext == FeedDeliver \/ FeedClockAdvance

SpecFeed == FeedInit /\ [][FeedNext]_vars

\* C21 (transport agnosticism): after the same sequence of best-bid and
\* best-ask updates of the two tokens, the hook fed by WebSocket messages
\* and the hook fed by the poll hold the same TOB map and the same two
\* series: the same points, pushed in the same order.
C21_TransportAgnostic ==
  /\ wsHook.tob = tobRef
  /\ wsHook.yes = seriesYesRef
  /\ wsHook.no = seriesNoRef

\* Both tokens changed in one update that the socket delivered as a book
\* snapshot per token: the TOB maps agree, the socket-fed hook has pushed
\* two points per series and the polled hook one.
C21_Witness ==
  /\ wsLast.n = 1
  /\ wsLast.messages = 2
  /\ wsLast.event_type = "book"
  /\ wsHook.tob = tobRef
  /\ Len(wsHook.yes) = 2
  /\ Len(seriesYesRef) = 1
  /\ wsHook.yes[2] = seriesYesRef[1]
  /\ wsHook.yes[1].p # wsHook.yes[2].p

\* The two hooks always hold the same TOB map.
FeedSameTob == wsHook.tob = tobRef

\* While every update came as one message, the series agree as well.
FeedSameWhenUnsplit ==
  wsLast.split = 0 => (wsHook.yes = seriesYesRef /\ wsHook.no = seriesNoRef)

(***************************************************************************)
(* SpecSock: the life cycle of the WebSocket version of useMarketWS        *)
(* (app/page.tsx): the effect opens a socket per token pair, onclose and   *)
(* onerror start the fallback poll, the cleanup closes the socket and      *)
(* clears the interval.  The same refs as in the poll-only hook.           *)
(***************************************************************************)
MaxSockets == 2       \* WebSockets created per run of SpecSock

\* new WebSocket(wsUrl) in the effect whose tokens are c.
NewSocket(c) == [c |-> c, state |-> "open", failed |-> FALSE]

\* The cleanup of the socket effect on st = [..., timer, live, sockets]:
\* ws.close() on the effect's socket, the one created last, then the
\* interval of the ref is cleared.  The close event comes later.
SocketCleanup(st) ==
  LET n == Len(st.sockets)
      closing == IF n > 0 /\ st.sockets[n].state = "open"
                 THEN [st EXCEPT !.sockets[n].state = "closing"]
                 ELSE st
  IN clearPolling(closing)

\* The socket effect for the props y, n: nothing when a token is missing,
\* else an empty TOB entry per token and a new socket with its handlers.
SocketEffect(st, y, n) ==
  IF y = None \/ n = None THEN st
  ELSE [st EXCEPT !.tob = [@ EXCEPT ![y[1]] = Some(EmptyTOB), ![n[1]] = Some(EmptyTOB)],
                  !.sockets = Append(@, NewSocket([yes |-> y[1], no |-> n[1]]))]

\* The refs and the browser's intervals and sockets as one record.
SockState ==
  [tob |-> tobRef, yes |-> seriesYesRef, no |-> seriesNoRef,
   timer |-> pollTimer, live |-> intervals, sockets |-> sockets]

\* What the socket's handlers and effects leave alone.
notSock == <<tsVars, bcVars, viewVars, histVars, appVars, midVars, ctlVars, resVars, wakeVars,
             wsHook, wsLast>>

\* A commit with changed token props (one with no tokens stands for the
\* unmount as well): cleanup of the socket effect when it had set one up,
\* the reset effect, the socket effect.
SockSetTokens ==
  \E props \in TokenProps :
    /\ props # <<yesTokenId, noTokenId>>
    /\ props[1] # None => Len(sockets) < MaxSockets
    /\ LET st1 == IF yesTokenId # None /\ noTokenId # None
                  THEN SocketCleanup(SockState) ELSE SockState
           st3 == SocketEffect(ResetEffect(st1), props[1], props[2])
       IN /\ yesTokenId' = props[1]
          /\ noTokenId' = props[2]
          /\ tobRef' = st3.tob
          /\ currentTOB' = MemoAfterReset(currentTOB)
          /\ seriesYesRef' = st3.yes
          /\ seriesNoRef' = st3.no
          /\ pollTimer' = st3.timer
          /\ intervals' = st3.live
          /\ sockets' = st3.sockets
          /\ hookLast' = [op |-> "setTokens",
                          dropped |-> Len(seriesYesRef) + Len(seriesNoRef)
                                      + Cardinality(TobFields(tobRef))]
    /\ UNCHANGED <<inFlight, clock, ticks, notSock>>

\* The error event of a socket that is not closed yet: onerror calls the
\* startPolling of the effect that created the socket.
SockError ==
  \E k \in 1..Len(sockets) :
    /\ sockets[k].state # "closed"
    /\ ~sockets[k].failed
    /\ LET st == startPolling(SockState, sockets[k].c)
       IN /\ pollTimer' = st.timer
          /\ intervals' = st.live
          /\ hookLast' = [op |-> "wsError", dropped |-> 0, c |-> sockets[k].c,
                          started |-> st.live # intervals]
    /\ sockets' = [sockets EXCEPT ![k].failed = TRUE]
    /\ UNCHANGED <<yesTokenId, noTokenId, seriesYesRef, seriesNoRef, tobRef, currentTOB,
                   inFlight, clock, ticks, notSock>>

\* The close event of a socket, after ws.close() of the cleanup or because
\* the connection ended: onclose calls the startPolling of the effect that
\* created the socket.
SockClose ==
  \E k \in 1..Len(sockets) :
    /\ sockets[k].state # "closed"
    /\ LET st == startPolling(SockState, sockets[k].c)
       IN /\ pollTimer' = st.timer
          /\ intervals' = st.live
          /\ hookLast' = [op |-> "wsClose", dropped |-> 0, c |-> sockets[k].c,
                          started |-> st.live # intervals]
    /\ sockets' = [sockets EXCEPT ![k].state = "closed"]
    /\ UNCHANGED <<yesTokenId, noTokenId, seriesYesRef, seriesNoRef, tobRef, currentTOB,
                   inFlight, clock, ticks, notSock>>

SockTimerFire == ticks < AppMaxTicks /\ TimerFireIn(notHook)
SockPollResolve == PollResolveIn(AppQuotes, notHook)

SockNext ==
  \/ SockSetTokens
  \/ SockError
  \/ SockClose
  \/ SockTimerFire
  \/ SockPollResolve
  \/ PollReject

SpecSock == Init /\ [][SockNext]_vars

\* C35 (poll timer uniqueness): the browser holds at most one poll interval;
\* it holds none while a token id is missing, and the one it holds polls
\* the committed token pair: the interval of an earlier pair is cleared and
\* none is started for it after the pair has changed.
C35_TimerUniqueness ==
  /\ Len(intervals) <= 1
  /\ (yesTokenId = None \/ noTokenId = None) => intervals = <<>>
  /\ \A k \in 1..Len(intervals) :
       /\ Some(intervals[k].yes) = yesTokenId
       /\ Some(intervals[k].no) = noTokenId

\* After the switch from A/B to C/D the close event of the socket of A/B
\* started a poll of A/B; the socket of C/D has closed as well and its
\* startPolling found the ref taken: C/D is fed by no socket and no poll.
C35_Witness ==
  /\ yesTokenId = Some("C")
  /\ noTokenId = Some("D")
  /\ intervals = <<[yes |-> "A", no |-> "B"]>>
  /\ pollTimer = Some([yes |-> "A", no |-> "B"])
  /\ \A k \in 1..Len(sockets) : sockets[k].state = "closed"
  /\ hookLast.op = "wsClose"
  /\ hookLast.c = [yes |-> "C", no |-> "D"]
  /\ ~hookLast.started

\* The hook has no tokens (or is unmounted) and an interval runs.
C35_WitnessUnmounted ==
  /\ yesTokenId = None
  /\ intervals # <<>>
  /\ hookLast.op = "wsClose"
  /\ hookLast.started

\* The ref holds the handle of every interval the browser holds: at most
\* one, in both versions of the hook.
TimerInRef ==
  /\ Len(intervals) <= 1
  /\ pollTimer = (IF intervals = <<>> THEN None ELSE Some(intervals[1]))

(***************************************************************************)
(* SpecWake: useWakeLock (hooks/useWakeLock.ts), its effect and cleanup,   *)
(* the settling wake-lock requests and the document's events.              *)
(***************************************************************************)
\* The refs, the locals of the effect instances and what the document and
\* the user agent hold: st = [cancelled, ref, retryRef, requests, sentinels,
\* listeners, requested].
WakeState ==
  [cancelled |-> wakeCancelled, ref |-> wakeLockRef, retryRef |-> interactionRetryRef,
   requests |-> wakeRequests, sentinels |-> sentinels, listeners |-> listeners,
   requested |-> wakeLast.requested]

\* sentinel.release() on the sentinel numbered id.
ReleaseSentinel(all, id) == [all EXCEPT ![id] = "released"]

\* requestWakeLock of effect instance e, up to its await: it returns when
\* navigator.wakeLock is missing, else the request is pending.
requestWakeLock(st, e) ==
  IF ~navWakeLock THEN st
  ELSE [st EXCEPT !.requests = Append(@, e), !.requested = @ + 1]

\* The request resolves with a new sentinel: released at once when the
\* effect instance is cancelled, else stored in wakeLockRef.
RequestGranted(st, e) ==
  LET id == Len(st.sentinels) + 1
  IN IF st.cancelled[e]
     THEN [st EXCEPT !.sentinels = Append(@, "released")]
     ELSE [st EXCEPT !.sentinels = Append(@, "held"), !.ref = Some(id)]

\* The request rejects: the catch registers a one-time retry on click and
\* touchend unless interactionRetryRef holds one.
RequestDenied(st, e) ==
  IF st.retryRef = None
  THEN [st EXCEPT !.retryRef = Some(e), !.listeners.retry = @ \cup {e}]
  ELSE st

\* retry of effect instance e, run by a click or a touchend: it clears the
\* ref, removes itself and calls requestWakeLock.
retry(st, e) ==
  requestWakeLock([st EXCEPT !.retryRef = None, !.listeners.retry = @ \ {e}], e)

\* handleVisibility of the handler h = [e, enabled] with the document in
\* the visibility state vis.
handleVisibility(st, h, vis) ==
  IF vis = "visible" /\ h.enabled THEN requestWakeLock(st, h.e) ELSE st

\* The cleanup of effect instance e.
WakeCleanup(st, e) ==
  LET flagged == [st EXCEPT !.cancelled[e] = TRUE,
                            !.listeners.visibilitychange = {h \in @ : h.e # e}]
      noRetry == IF flagged.retryRef # None
                 THEN [flagged EXCEPT !.retryRef = None,
                                      !.listeners.retry = @ \ {flagged.retryRef[1]}]
                 ELSE flagged
  IN IF noRetry.ref # None
     THEN [noRetry EXCEPT !.ref = None,
                          !.sentinels = ReleaseSentinel(@, noRetry.ref[1])]
     ELSE noRetry

\* The effect of instance e for the prop en.
WakeEffect(st, e, en) ==
  IF en
  THEN [requestWakeLock(st, e) EXCEPT
          !.listeners.visibilitychange = @ \cup {[e |-> e, enabled |-> en]}]
  ELSE st

\* The state st becomes the state of the hook; op names the step.
WakeApply(st, op) ==
  /\ st.requested <= MaxWakeRequests
  /\ wakeCancelled' = st.cancelled
  /\ wakeLockRef' = st.ref
  /\ interactionRetryRef' = st.retryRef
  /\ wakeRequests' = st.requests
  /\ sentinels' = st.sentinels
  /\ listeners' = st.listeners
  /\ wakeLast' = [op |-> op, requested |-> st.requested]

\* What SpecWake leaves alone.
notWake == <<tsVars, bcVars, viewVars, hookVars, histVars, appVars, midVars, ctlVars,
             resVars, wsVars>>

\* After the first commit with enabled false, in a browser with or without
\* the Wake Lock API.
WakeInit ==
  /\ enabled = FALSE
  /\ wakeMounted = TRUE
  /\ wakeEffect = 0
  /\ wakeCancelled = [e \in 0..MaxWakeEffects |-> FALSE]
  /\ wakeLockRef = None
  /\ interactionRetryRef = None
  /\ wakeRequests = <<>>
  /\ sentinels = <<>>
  /\ listeners = [visibilitychange |-> {}, retry |-> {}]
  /\ visibilityState = "visible"
  /\ navWakeLock \in BOOLEAN
  /\ wakeLast = [op |-> "mount", requested |-> 0]
  /\ TSIdle
  /\ BCIdle
  /\ ViewIdle
  /\ HookIdle
  /\ HistIdle
  /\ AppIdle
  /\ MidIdle
  /\ CtlIdle
  /\ ResIdle
  /\ WsIdle

\* A commit with the prop enabled changed: the cleanup of the last effect
\* instance, then the effect of the new one.
WakeSetEnabled ==
  /\ wakeMounted
  /\ wakeEffect < MaxWakeEffects
  /\ enabled' = ~enabled
  /\ wakeEffect' = wakeEffect + 1
  /\ WakeApply(WakeEffect(WakeCleanup(WakeState, wakeEffect), wakeEffect + 1, ~enabled),
               "setEnabled")
  /\ UNCHANGED <<wakeMounted, visibilityState, navWakeLock, notWake>>

\* The component unmounts: the cleanup of the last effect instance.
WakeUnmount ==
  /\ wakeMounted
  /\ wakeMounted' = FALSE
  /\ WakeApply(WakeCleanup(WakeState, wakeEffect), "unmount")
  /\ UNCHANGED <<enabled, wakeEffect, visibilityState, navWakeLock, notWake>>

\* A pending request resolves (the user agent grants a lock to a visible
\* document only).
WakeGranted ==
  \E i \in 1..Len(wakeRequests) :
    /\ visibilityState = "visible"
    /\ WakeApply(RequestGranted([WakeState EXCEPT !.requests = RemoveAt(@, i)],
                                wakeRequests[i]),
                 "granted")
    /\ UNCHANGED <<enabled, wakeMounted, wakeEffect, visibilityState, navWakeLock, notWake>>

\* A pending request rejects (no user gesture yet, a hidden document, a
\* denied permission).
WakeDenied ==
  \E i \in 1..Len(wakeRequests) :
    /\ WakeApply(RequestDenied([WakeState EXCEPT !.requests = RemoveAt(@, i)],
                               wakeRequests[i]),
                 "denied")
    /\ UNCHANGED <<enabled, wakeMounted, wakeEffect, visibilityState, navWakeLock, notWake>>

\* The handlers of a set of visibilitychange listeners, run one after another.
RECURSIVE RunVisibility(_, _, _)
RunVisibility(st, hs, vis) ==
  IF hs = {} THEN st
  ELSE LET h == CHOOSE x \in hs : \A y \in hs : x.e <= y.e
       IN RunVisibility(handleVisibility(st, h, vis), hs \ {h}, vis)

\* The document is hidden or shown again.  Hiding it makes the user agent
\* release every screen wake lock; then the visibilitychange event runs the
\* registered handlers.
WakeVisibilityChange ==
  \E vis \in {"visible", "hidden"} :
    /\ vis # visibilityState
    /\ visibilityState' = vis
    /\ LET st == IF vis = "hidden"
                 THEN [WakeState EXCEPT
                         !.sentinels = [k \in 1..Len(@) |-> "released"]]
                 ELSE WakeState
       IN WakeApply(RunVisibility(st, listeners.visibilitychange, vis), "visibilitychange")
    /\ UNCHANGED <<enabled, wakeMounted, wakeEffect, navWakeLock, notWake>>

\* A click or a touchend on the document: a registered retry runs.
WakeInteraction ==
  \E e \in listeners.retry :
    /\ WakeApply(retry(WakeState, e), "interaction")
    /\ UNCHANGED <<enabled, wakeMounted, wakeEffect, visibilityState, navWakeLock, notWake>>

WakeNext ==
  \/ WakeSetEnabled
  \/ WakeUnmount
  \/ WakeGranted
  \/ WakeDenied
  \/ WakeVisibilityChange
  \/ WakeInteraction

SpecWake == WakeInit /\ [][WakeNext]_vars

\* The sentinels that are held.
Held == {k \in 1..Len(sentinels) : sentinels[k] = "held"}

\* C38: after useWakeLock is disabled or unmounted, every sentinel its
\* requests acquired or acquire later is released: none is held and no retry
\* listener is registered.
C38_WakeLockRelease ==
  (~wakeMounted \/ ~enabled) => (Held = {} /\ listeners.retry = {})

\* The hook is unmounted and a retry is registered: a request that was
\* pending at the cleanup was denied afterwards.
C38_Witness ==
  /\ ~wakeMounted
  /\ wakeLast.op = "denied"
  /\ listeners.retry # {}
  /\ interactionRetryRef # None

\* The hook is disabled and a sentinel is held: two requests of one effect
\* instance were granted and the cleanup released the later one.
C38_WitnessHeld ==
  /\ wakeMounted
  /\ ~enabled
  /\ wakeLast.op = "setEnabled"
  /\ wakeLockRef = None
  /\ Held # {}
  /\ wakeRequests = <<>>

\* What the cleanup does achieve: the ref is empty and no visibility
\* handler is registered while disabled or unmounted, and a request granted
\* after the cleanup is released at once.
CleanupReleasesRef ==
  (~wakeMounted \/ ~enabled) =>
    /\ wakeLockRef = None
    /\ listeners.visibilitychange = {}

\* The retry in the ref is the one registered, and at most one is.
RetryInRef ==
  listeners.retry = (IF interactionRetryRef = None THEN {} ELSE {interactionRetryRef[1]})
====
